---- MODULE Spec2Model ----
(***************************************************************************)
(* SHA-256 / SHA-512 compression transforms (generic and AArch64           *)
(* hardware-instruction versions) and the incremental hashers built on     *)
(* them.                                                                   *)
(*                                                                         *)
(* Machine words are wider than the model checker's integers, so a u32 is  *)
(* a pair and a u64 a quadruple of 16-bit limbs, most significant first;   *)
(* every word operation of the source is defined on that representation    *)
(* with the source's width (all arithmetic is modulo 2^32 or 2^64).        *)
(***************************************************************************)
EXTENDS Integers, Sequences, FiniteSets, TLC

----------------------------------------------------------------------------
(* Word arithmetic                                                         *)

Pow2Table ==
  <<1, 2, 4, 8, 16, 32, 64, 128, 256, 512, 1024, 2048, 4096, 8192, 16384, 32768, 65536>>

RECURSIVE BitXor(_, _, _)
BitXor(a, b, n) ==
  IF n = 0 THEN 0
  ELSE ((a + b) % 2) + 2 * BitXor(a \div 2, b \div 2, n - 1)

\* The exclusive or of two bytes, tabulated once: XorTable[a + 1][b + 1] = a ^ b.
XorTable ==
  SubSeq([a \in 1..256 |->
            SubSeq([b \in 1..256 |-> BitXor(a - 1, b - 1, 8)], 1, 256)], 1, 256)

\* ^ on one 16-bit limb, byte by byte.
Xor16(a, b) ==
    XorTable[(a \div 256) + 1][(b \div 256) + 1] * 256
  + XorTable[(a % 256) + 1][(b % 256) + 1]

\* & on one 16-bit limb: a + b = (a ^ b) + 2 * (a & b).
And16(a, b) == (a + b - Xor16(a, b)) \div 2

\* x ^ y
Xor(x, y) ==
  IF Len(x) = 2
  THEN <<Xor16(x[1], y[1]), Xor16(x[2], y[2])>>
  ELSE <<Xor16(x[1], y[1]), Xor16(x[2], y[2]), Xor16(x[3], y[3]), Xor16(x[4], y[4])>>

\* x & y
And(x, y) ==
  IF Len(x) = 2
  THEN <<And16(x[1], y[1]), And16(x[2], y[2])>>
  ELSE <<And16(x[1], y[1]), And16(x[2], y[2]), And16(x[3], y[3]), And16(x[4], y[4])>>

\* !x
Not(x) ==
  IF Len(x) = 2
  THEN <<65535 - x[1], 65535 - x[2]>>
  ELSE <<65535 - x[1], 65535 - x[2], 65535 - x[3], 65535 - x[4]>>

\* Limb i of a word of L limbs rotated right by q whole limbs and r bits: the
\* low bits come from limb i - q, the high r bits from limb i - q - 1 (mod L).
RotrLimb(x, L, q, r, i) ==
  (x[((i - q - 1 + L) % L) + 1] \div Pow2Table[r + 1])
  + (x[((i - q - 2 + L + L) % L) + 1] % Pow2Table[r + 1]) * Pow2Table[16 - r + 1]

\* x.rotate_right(n)
rotate_right(x, n) ==
  IF Len(x) = 2
  THEN <<RotrLimb(x, 2, n \div 16, n % 16, 1),
         RotrLimb(x, 2, n \div 16, n % 16, 2)>>
  ELSE <<RotrLimb(x, 4, n \div 16, n % 16, 1),
         RotrLimb(x, 4, n \div 16, n % 16, 2),
         RotrLimb(x, 4, n \div 16, n % 16, 3),
         RotrLimb(x, 4, n \div 16, n % 16, 4)>>

\* Limb i of x >> (16 * q + r): as RotrLimb, with zeros shifted in.
ShrLimb(x, q, r, i) ==
  (IF i - q >= 1 THEN x[i - q] \div Pow2Table[r + 1] ELSE 0)
  + (IF i - q - 1 >= 1 THEN (x[i - q - 1] % Pow2Table[r + 1]) * Pow2Table[16 - r + 1]
     ELSE 0)

\* x >> n
Shr(x, n) ==
  IF Len(x) = 2
  THEN <<ShrLimb(x, n \div 16, n % 16, 1),
         ShrLimb(x, n \div 16, n % 16, 2)>>
  ELSE <<ShrLimb(x, n \div 16, n % 16, 1),
         ShrLimb(x, n \div 16, n % 16, 2),
         ShrLimb(x, n \div 16, n % 16, 3),
         ShrLimb(x, n \div 16, n % 16, 4)>>

RECURSIVE AddLimbs(_, _, _, _)
AddLimbs(x, y, i, carry) ==
  IF i = 0 THEN <<>>
  ELSE LET s == x[i] + y[i] + carry
       IN  AddLimbs(x, y, i - 1, s \div 65536) \o <<s % 65536>>

\* x.wrapping_add(y): the sum modulo 2^(16 * Len(x))
wrapping_add(x, y) == AddLimbs(x, y, Len(x), 0)

RECURSIVE MulLimbs(_, _, _, _)
MulLimbs(x, k, i, carry) ==
  IF i = 0 THEN <<>>
  ELSE LET p == x[i] * k + carry
       IN  MulLimbs(x, k, i - 1, p \div 65536) \o <<p % 65536>>

\* x.wrapping_mul(k) for a small k: the product modulo 2^(16 * Len(x))
wrapping_mul(x, k) == MulLimbs(x, k, Len(x), 0)

\* n as an unsigned word of L limbs (n as u64, n as u128)
RECURSIVE NatToWord(_, _)
NatToWord(n, L) ==
  IF L = 0 THEN <<>>
  ELSE NatToWord(n \div 65536, L - 1) \o <<n % 65536>>

Min(a, b) == IF a < b THEN a ELSE b

\* n zero bytes
Zeros(n) == SubSeq([i \in 1..n |-> 0], 1, n)

\* u32::from_be_bytes
u32_from_be_bytes(b) == <<b[1] * 256 + b[2], b[3] * 256 + b[4]>>

\* u64::from_be_bytes
u64_from_be_bytes(b) ==
  <<b[1] * 256 + b[2], b[3] * 256 + b[4], b[5] * 256 + b[6], b[7] * 256 + b[8]>>

\* to_be_bytes of a word of any width
RECURSIVE to_be_bytes(_)
to_be_bytes(x) ==
  IF x = <<>> THEN <<>>
  ELSE <<x[1] \div 256, x[1] % 256>> \o to_be_bytes(Tail(x))

----------------------------------------------------------------------------
(* SHA-256: sha256_rust/src/lib.rs                                         *)

\* Sha256State::new with the initial hash value of SHA-224.
Sha256State_newSha224 ==
  <<
    <<\hc105, \h9ed8>>, <<\h367c, \hd507>>, <<\h3070, \hdd17>>, <<\hf70e, \h5939>>,
    <<\hffc0, \h0b31>>, <<\h6858, \h1511>>, <<\h64f9, \h8fa7>>, <<\hbefa, \h4fa4>>>>

\* Sha256State::new
Sha256State_new ==
  <<<<\h6a09, \he667>>, <<\hbb67, \hae85>>, <<\h3c6e, \hf372>>, <<\ha54f, \hf53a>>,
    <<\h510e, \h527f>>, <<\h9b05, \h688c>>, <<\h1f83, \hd9ab>>, <<\h5be0, \hcd19>>>>

K_sha256 ==
  <<<<\h428a, \h2f98>>, <<\h7137, \h4491>>, <<\hb5c0, \hfbcf>>, <<\he9b5, \hdba5>>,
    <<\h3956, \hc25b>>, <<\h59f1, \h11f1>>, <<\h923f, \h82a4>>, <<\hab1c, \h5ed5>>,
    <<\hd807, \haa98>>, <<\h1283, \h5b01>>, <<\h2431, \h85be>>, <<\h550c, \h7dc3>>,
    <<\h72be, \h5d74>>, <<\h80de, \hb1fe>>, <<\h9bdc, \h06a7>>, <<\hc19b, \hf174>>,
    <<\he49b, \h69c1>>, <<\hefbe, \h4786>>, <<\h0fc1, \h9dc6>>, <<\h240c, \ha1cc>>,
    <<\h2de9, \h2c6f>>, <<\h4a74, \h84aa>>, <<\h5cb0, \ha9dc>>, <<\h76f9, \h88da>>,
    <<\h983e, \h5152>>, <<\ha831, \hc66d>>, <<\hb003, \h27c8>>, <<\hbf59, \h7fc7>>,
    <<\hc6e0, \h0bf3>>, <<\hd5a7, \h9147>>, <<\h06ca, \h6351>>, <<\h1429, \h2967>>,
    <<\h27b7, \h0a85>>, <<\h2e1b, \h2138>>, <<\h4d2c, \h6dfc>>, <<\h5338, \h0d13>>,
    <<\h650a, \h7354>>, <<\h766a, \h0abb>>, <<\h81c2, \hc92e>>, <<\h9272, \h2c85>>,
    <<\ha2bf, \he8a1>>, <<\ha81a, \h664b>>, <<\hc24b, \h8b70>>, <<\hc76c, \h51a3>>,
    <<\hd192, \he819>>, <<\hd699, \h0624>>, <<\hf40e, \h3585>>, <<\h106a, \ha070>>,
    <<\h19a4, \hc116>>, <<\h1e37, \h6c08>>, <<\h2748, \h774c>>, <<\h34b0, \hbcb5>>,
    <<\h391c, \h0cb3>>, <<\h4ed8, \haa4a>>, <<\h5b9c, \hca4f>>, <<\h682e, \h6ff3>>,
    <<\h748f, \h82ee>>, <<\h78a5, \h636f>>, <<\h84c8, \h7814>>, <<\h8cc7, \h0208>>,
    <<\h90be, \hfffa>>, <<\ha450, \h6ceb>>, <<\hbef9, \ha3f7>>, <<\hc671, \h78f2>>>>

\* W[0..15]: the block's big-endian 32-bit groups.
RECURSIVE Sha256LoadW(_, _)
Sha256LoadW(data, i) ==
  IF i = 16 THEN <<>>
  ELSE <<u32_from_be_bytes(<<data[i * 4 + 1], data[i * 4 + 2],
                             data[i * 4 + 3], data[i * 4 + 4]>>)>>
       \o Sha256LoadW(data, i + 1)

\* Sha256ScheduleWord with s1 rotating where the source shifts.
Sha256ScheduleWordRotating(w, i) ==
  LET s0 == Xor(Xor(rotate_right(w[i - 15 + 1], 7), rotate_right(w[i - 15 + 1], 18)),
                Shr(w[i - 15 + 1], 3))
      s1 == Xor(Xor(rotate_right(w[i - 2 + 1], 17), rotate_right(w[i - 2 + 1], 19)),
                rotate_right(w[i - 2 + 1], 10))
  IN  wrapping_add(wrapping_add(wrapping_add(w[i - 16 + 1], s0), w[i - 7 + 1]), s1)

\* The schedule word w[i] for 16 <= i < 64 (w holds w[0..i-1], 1-indexed).
Sha256ScheduleWord(w, i) ==
  LET s0 == Xor(Xor(rotate_right(w[i - 15 + 1], 7), rotate_right(w[i - 15 + 1], 18)),
                Shr(w[i - 15 + 1], 3))
      s1 == Xor(Xor(rotate_right(w[i - 2 + 1], 17), rotate_right(w[i - 2 + 1], 19)),
                Shr(w[i - 2 + 1], 10))
  IN  wrapping_add(wrapping_add(wrapping_add(w[i - 16 + 1], s0), w[i - 7 + 1]), s1)

\* The loop for i in 16..64: extends w = w[0..i-1] one word at a time.
RECURSIVE Sha256ExpandW(_)
Sha256ExpandW(w) ==
  IF Len(w) = 64 THEN w
  ELSE Sha256ExpandW(Append(w, Sha256ScheduleWord(w, Len(w))))

\* The message schedule of one block.
Sha256Schedule(data) == Sha256ExpandW(Sha256LoadW(data, 0))

\* temp1 of one round: e, f, g, h are the working variables, ki = K[i], wi = w[i].
Sha256Temp1(e, f, g, h, ki, wi) ==
  LET s1 == Xor(Xor(rotate_right(e, 6), rotate_right(e, 11)), rotate_right(e, 25))
      ch == Xor(And(e, f), And(Not(e), g))
  IN  wrapping_add(wrapping_add(wrapping_add(wrapping_add(h, s1), ch), ki), wi)

\* temp2 of one round.
Sha256Temp2(a, b, c) ==
  LET s0 == Xor(Xor(rotate_right(a, 2), rotate_right(a, 13)), rotate_right(a, 22))
      maj == Xor(Xor(And(a, b), And(a, c)), And(b, c))
  IN  wrapping_add(s0, maj)

\* The working variables <<a, ..., h>> after a round that computed temp1, temp2.
Sha256Rotate(v, temp1, temp2) ==
  <<wrapping_add(temp1, temp2), v[1], v[2], v[3],
    wrapping_add(v[4], temp1), v[5], v[6], v[7]>>

\* One round: v = <<a, b, c, d, e, f, g, h>>, ki = K[i], wi = w[i].
Sha256Round(v, ki, wi) ==
  Sha256Rotate(v, Sha256Temp1(v[5], v[6], v[7], v[8], ki, wi), Sha256Temp2(v[1], v[2], v[3]))

\* Sha256Rounds with the loop for i in 0..63: one round short.
RECURSIVE Sha256RoundsOneShort(_, _)
Sha256RoundsOneShort(s, w) ==
  IF s.i = 63 THEN s.v
  ELSE Sha256RoundsOneShort([i |-> s.i + 1,
                             v |-> Sha256Round(s.v, K_sha256[s.i + 1], w[s.i + 1])], w)

\* The loop for i in 0..64; s = [i |-> next round, v |-> <<a, ..., h>>].
RECURSIVE Sha256Rounds(_, _)
Sha256Rounds(s, w) ==
  IF s.i = 64 THEN s.v
  ELSE Sha256Rounds([i |-> s.i + 1,
                     v |-> Sha256Round(s.v, K_sha256[s.i + 1], w[s.i + 1])], w)

\* The feed-forward: state.h[k] = state.h[k].wrapping_add(working variable k).
Sha256FeedForward(h, v) ==
  <<wrapping_add(h[1], v[1]), wrapping_add(h[2], v[2]),
    wrapping_add(h[3], v[3]), wrapping_add(h[4], v[4]),
    wrapping_add(h[5], v[5]), wrapping_add(h[6], v[6]),
    wrapping_add(h[7], v[7]), wrapping_add(h[8], v[8])>>

\* sha256_transform_generic: the chaining state after one block.
sha256_transform_generic(h, data) ==
  Sha256FeedForward(h, Sha256Rounds([i |-> 0, v |-> h], Sha256Schedule(data)))

\* Sha256::new (blocks: the blocks handed to the transform so far, in order)
Sha256_new ==
  [state |-> Sha256State_new, buffer |-> Zeros(64), buffer_len |-> 0,
   total_len |-> NatToWord(0, 4), blocks |-> <<>>]

\* Sha256UpdateTopUp that leaves pos at 0 after the copy.
Sha256UpdateTopUpNoAdvance(self, data) ==
  IF self.buffer_len > 0
  THEN LET to_copy == Min(64 - self.buffer_len, Len(data))
           buffer == SubSeq(self.buffer, 1, self.buffer_len)
                     \o SubSeq(data, 1, to_copy)
                     \o SubSeq(self.buffer, self.buffer_len + to_copy + 1, 64)
           buffer_len == self.buffer_len + to_copy
       IN  IF buffer_len = 64
           THEN [h |-> [self EXCEPT
                          !.state = sha256_transform_generic(self.state, buffer),
                          !.buffer = buffer,
                          !.buffer_len = 0,
                          !.blocks = Append(@, buffer)],
                 pos |-> 0]
           ELSE [h |-> [self EXCEPT !.buffer = buffer, !.buffer_len = buffer_len],
                 pos |-> 0]
  ELSE [h |-> self, pos |-> 0]

\* Sha256::update, the top-up of a non-empty buffer; the result carries pos.
Sha256UpdateTopUp(self, data) ==
  IF self.buffer_len > 0
  THEN LET to_copy == Min(64 - self.buffer_len, Len(data))
           buffer == SubSeq(self.buffer, 1, self.buffer_len)
                     \o SubSeq(data, 1, to_copy)
                     \o SubSeq(self.buffer, self.buffer_len + to_copy + 1, 64)
           buffer_len == self.buffer_len + to_copy
       IN  IF buffer_len = 64
           THEN [h |-> [self EXCEPT
                          !.state = sha256_transform_generic(self.state, buffer),
                          !.buffer = buffer,
                          !.buffer_len = 0,
                          !.blocks = Append(@, buffer)],
                 pos |-> to_copy]
           ELSE [h |-> [self EXCEPT !.buffer = buffer, !.buffer_len = buffer_len],
                 pos |-> to_copy]
  ELSE [h |-> self, pos |-> 0]

\* Sha256UpdateBlocks with  while pos + 64 < data.len(): a last full block is
\* left to the remainder.
RECURSIVE Sha256UpdateBlocksStrict(_, _)
Sha256UpdateBlocksStrict(s, data) ==
  IF s.pos + 64 < Len(data)
  THEN LET block == SubSeq(data, s.pos + 1, s.pos + 64)
       IN  Sha256UpdateBlocksStrict(
             [h |-> [s.h EXCEPT
                       !.state = sha256_transform_generic(s.h.state, block),
                       !.blocks = Append(@, block)],
              pos |-> s.pos + 64], data)
  ELSE s

\* Sha256::update, the loop over the full blocks of data.
RECURSIVE Sha256UpdateBlocks(_, _)
Sha256UpdateBlocks(s, data) ==
  IF s.pos + 64 <= Len(data)
  THEN LET block == SubSeq(data, s.pos + 1, s.pos + 64)
       IN  Sha256UpdateBlocks(
             [h |-> [s.h EXCEPT
                       !.state = sha256_transform_generic(s.h.state, block),
                       !.blocks = Append(@, block)],
              pos |-> s.pos + 64], data)
  ELSE s

\* Sha256::update, the copy of the remainder into the buffer.
Sha256UpdateRemainder(s, data) ==
  IF s.pos < Len(data)
  THEN LET remaining == Len(data) - s.pos
       IN  [s.h EXCEPT
              !.buffer = SubSeq(data, s.pos + 1, Len(data))
                         \o SubSeq(s.h.buffer, remaining + 1, 64),
              !.buffer_len = remaining]
  ELSE s.h

\* Sha256::update
Sha256_update(self, data) ==
  LET counted == [self EXCEPT
                    !.total_len = wrapping_add(@, NatToWord(Len(data), 4))]
  IN  Sha256UpdateRemainder(
        Sha256UpdateBlocks(Sha256UpdateTopUp(counted, data), data), data)

\* Sha256ZeroFill that advances buffer_len without writing the zero.
RECURSIVE Sha256ZeroFillNoWrite(_, _)
Sha256ZeroFillNoWrite(self, bound) ==
  IF self.buffer_len < bound
  THEN Sha256ZeroFillNoWrite([self EXCEPT !.buffer_len = @ + 1], bound)
  ELSE self

\* Sha256::finalize, the loops  while buffer_len < bound { buffer[buffer_len] = 0; .. }
RECURSIVE Sha256ZeroFill(_, _)
Sha256ZeroFill(self, bound) ==
  IF self.buffer_len < bound
  THEN Sha256ZeroFill([self EXCEPT !.buffer[self.buffer_len + 1] = 0,
                                   !.buffer_len = @ + 1], bound)
  ELSE self

\* Sha256FinalizeMark with the marker 0x01: the set bit at the low end of the byte.
Sha256FinalizeMarkLowBit(self) ==
  [self EXCEPT !.buffer[self.buffer_len + 1] = 1, !.buffer_len = @ + 1]

\* Sha256::finalize: buffer[buffer_len] = 0x80; buffer_len += 1
Sha256FinalizeMark(self) ==
  [self EXCEPT !.buffer[self.buffer_len + 1] = 128, !.buffer_len = @ + 1]

\* Sha256::finalize: sha256_transform_generic(&mut self.state, &self.buffer)
Sha256FinalizeTransform(self) ==
  [self EXCEPT !.state = sha256_transform_generic(self.state, self.buffer),
               !.blocks = Append(@, self.buffer)]

\* Sha256FinalizeFirst with the threshold off by one.
Sha256FinalizeFirstEarly(self) ==
  IF self.buffer_len >= 56
  THEN [Sha256FinalizeTransform(Sha256ZeroFill(self, 64)) EXCEPT !.buffer_len = 0]
  ELSE self

\* Sha256::finalize: if buffer_len > 56, fill the block with zeros, transform it
\* and set buffer_len = 0
Sha256FinalizeFirst(self) ==
  IF self.buffer_len > 56
  THEN [Sha256FinalizeTransform(Sha256ZeroFill(self, 64)) EXCEPT !.buffer_len = 0]
  ELSE self

\* Sha256::finalize: the length field and the last transform
Sha256FinalizeLast(self, bit_len) ==
  Sha256FinalizeTransform(
    [self EXCEPT !.buffer = SubSeq(self.buffer, 1, 56) \o to_be_bytes(bit_len)])

\* Sha256FinalizeState with the 0x80 byte counted in the bit length.
Sha256FinalizeStateCountingPadding(self) ==
  Sha256FinalizeLast(
    Sha256ZeroFill(Sha256FinalizeFirst(Sha256FinalizeMark(self)), 56),
    wrapping_mul(wrapping_add(self.total_len, NatToWord(1, 4)), 8))

\* Sha256::finalize up to the last transform: the hasher it leaves.
Sha256FinalizeState(self) ==
  Sha256FinalizeLast(
    Sha256ZeroFill(Sha256FinalizeFirst(Sha256FinalizeMark(self)), 56),
    wrapping_mul(self.total_len, 8))

\* to_le_bytes of a word of any width
RECURSIVE to_le_bytes(_)
to_le_bytes(x) ==
  IF x = <<>> THEN <<>>
  ELSE to_le_bytes(Tail(x)) \o <<x[1] % 256, x[1] \div 256>>

\* SerializeState with every word written least significant byte first.
RECURSIVE SerializeStateLittleEndian(_)
SerializeStateLittleEndian(h) ==
  IF h = <<>> THEN <<>>
  ELSE to_le_bytes(Head(h)) \o SerializeStateLittleEndian(Tail(h))

\* The big-endian serialization of the eight state words.
RECURSIVE SerializeState(_)
SerializeState(h) ==
  IF h = <<>> THEN <<>>
  ELSE to_be_bytes(Head(h)) \o SerializeState(Tail(h))

\* Sha256::finalize: the 32 digest bytes.
Sha256_finalize(self) == SerializeState(Sha256FinalizeState(self).state)

----------------------------------------------------------------------------
(* SHA-512: sha512_rust/src/lib.rs                                         *)

\* Sha512State::new with the initial hash value of SHA-384.
Sha512State_newSha384 ==
  <<<<\hcbbb, \h9d5d, \hc105, \h9ed8>>, <<\h629a, \h292a, \h367c, \hd507>>,
    <<\h9159, \h015a, \h3070, \hdd17>>, <<\h152f, \hecd8, \hf70e, \h5939>>,
    <<\h6733, \h2667, \hffc0, \h0b31>>, <<\h8eb4, \h4a87, \h6858, \h1511>>,
    <<\hdb0c, \h2e0d, \h64f9, \h8fa7>>, <<\h47b5, \h481d, \hbefa, \h4fa4>>>>

\* Sha512State::new
Sha512State_new ==
  <<<<\h6a09, \he667, \hf3bc, \hc908>>, <<\hbb67, \hae85, \h84ca, \ha73b>>,
    <<\h3c6e, \hf372, \hfe94, \hf82b>>, <<\ha54f, \hf53a, \h5f1d, \h36f1>>,
    <<\h510e, \h527f, \hade6, \h82d1>>, <<\h9b05, \h688c, \h2b3e, \h6c1f>>,
    <<\h1f83, \hd9ab, \hfb41, \hbd6b>>, <<\h5be0, \hcd19, \h137e, \h2179>>>>

K_sha512 ==
  <<<<\h428a, \h2f98, \hd728, \hae22>>, <<\h7137, \h4491, \h23ef, \h65cd>>,
    <<\hb5c0, \hfbcf, \hec4d, \h3b2f>>, <<\he9b5, \hdba5, \h8189, \hdbbc>>,
    <<\h3956, \hc25b, \hf348, \hb538>>, <<\h59f1, \h11f1, \hb605, \hd019>>,
    <<\h923f, \h82a4, \haf19, \h4f9b>>, <<\hab1c, \h5ed5, \hda6d, \h8118>>,
    <<\hd807, \haa98, \ha303, \h0242>>, <<\h1283, \h5b01, \h4570, \h6fbe>>,
    <<\h2431, \h85be, \h4ee4, \hb28c>>, <<\h550c, \h7dc3, \hd5ff, \hb4e2>>,
    <<\h72be, \h5d74, \hf27b, \h896f>>, <<\h80de, \hb1fe, \h3b16, \h96b1>>,
    <<\h9bdc, \h06a7, \h25c7, \h1235>>, <<\hc19b, \hf174, \hcf69, \h2694>>,
    <<\he49b, \h69c1, \h9ef1, \h4ad2>>, <<\hefbe, \h4786, \h384f, \h25e3>>,
    <<\h0fc1, \h9dc6, \h8b8c, \hd5b5>>, <<\h240c, \ha1cc, \h77ac, \h9c65>>,
    <<\h2de9, \h2c6f, \h592b, \h0275>>, <<\h4a74, \h84aa, \h6ea6, \he483>>,
    <<\h5cb0, \ha9dc, \hbd41, \hfbd4>>, <<\h76f9, \h88da, \h8311, \h53b5>>,
    <<\h983e, \h5152, \hee66, \hdfab>>, <<\ha831, \hc66d, \h2db4, \h3210>>,
    <<\hb003, \h27c8, \h98fb, \h213f>>, <<\hbf59, \h7fc7, \hbeef, \h0ee4>>,
    <<\hc6e0, \h0bf3, \h3da8, \h8fc2>>, <<\hd5a7, \h9147, \h930a, \ha725>>,
    <<\h06ca, \h6351, \he003, \h826f>>, <<\h1429, \h2967, \h0a0e, \h6e70>>,
    <<\h27b7, \h0a85, \h46d2, \h2ffc>>, <<\h2e1b, \h2138, \h5c26, \hc926>>,
    <<\h4d2c, \h6dfc, \h5ac4, \h2aed>>, <<\h5338, \h0d13, \h9d95, \hb3df>>,
    <<\h650a, \h7354, \h8baf, \h63de>>, <<\h766a, \h0abb, \h3c77, \hb2a8>>,
    <<\h81c2, \hc92e, \h47ed, \haee6>>, <<\h9272, \h2c85, \h1482, \h353b>>,
    <<\ha2bf, \he8a1, \h4cf1, \h0364>>, <<\ha81a, \h664b, \hbc42, \h3001>>,
    <<\hc24b, \h8b70, \hd0f8, \h9791>>, <<\hc76c, \h51a3, \h0654, \hbe30>>,
    <<\hd192, \he819, \hd6ef, \h5218>>, <<\hd699, \h0624, \h5565, \ha910>>,
    <<\hf40e, \h3585, \h5771, \h202a>>, <<\h106a, \ha070, \h32bb, \hd1b8>>,
    <<\h19a4, \hc116, \hb8d2, \hd0c8>>, <<\h1e37, \h6c08, \h5141, \hab53>>,
    <<\h2748, \h774c, \hdf8e, \heb99>>, <<\h34b0, \hbcb5, \he19b, \h48a8>>,
    <<\h391c, \h0cb3, \hc5c9, \h5a63>>, <<\h4ed8, \haa4a, \he341, \h8acb>>,
    <<\h5b9c, \hca4f, \h7763, \he373>>, <<\h682e, \h6ff3, \hd6b2, \hb8a3>>,
    <<\h748f, \h82ee, \h5def, \hb2fc>>, <<\h78a5, \h636f, \h4317, \h2f60>>,
    <<\h84c8, \h7814, \ha1f0, \hab72>>, <<\h8cc7, \h0208, \h1a64, \h39ec>>,
    <<\h90be, \hfffa, \h2363, \h1e28>>, <<\ha450, \h6ceb, \hde82, \hbde9>>,
    <<\hbef9, \ha3f7, \hb2c6, \h7915>>, <<\hc671, \h78f2, \he372, \h532b>>,
    <<\hca27, \h3ece, \hea26, \h619c>>, <<\hd186, \hb8c7, \h21c0, \hc207>>,
    <<\heada, \h7dd6, \hcde0, \heb1e>>, <<\hf57d, \h4f7f, \hee6e, \hd178>>,
    <<\h06f0, \h67aa, \h7217, \h6fba>>, <<\h0a63, \h7dc5, \ha2c8, \h98a6>>,
    <<\h113f, \h9804, \hbef9, \h0dae>>, <<\h1b71, \h0b35, \h131c, \h471b>>,
    <<\h28db, \h77f5, \h2304, \h7d84>>, <<\h32ca, \hab7b, \h40c7, \h2493>>,
    <<\h3c9e, \hbe0a, \h15c9, \hbebc>>, <<\h431d, \h67c4, \h9c10, \h0d4c>>,
    <<\h4cc5, \hd4be, \hcb3e, \h42b6>>, <<\h597f, \h299c, \hfc65, \h7e2a>>,
    <<\h5fcb, \h6fab, \h3ad6, \hfaec>>, <<\h6c44, \h198c, \h4a47, \h5817>>>>

\* W[0..15]: the block's big-endian 64-bit groups.
RECURSIVE Sha512LoadW(_, _)
Sha512LoadW(data, i) ==
  IF i = 16 THEN <<>>
  ELSE <<u64_from_be_bytes(<<data[i * 8 + 1], data[i * 8 + 2],
                             data[i * 8 + 3], data[i * 8 + 4],
                             data[i * 8 + 5], data[i * 8 + 6],
                             data[i * 8 + 7], data[i * 8 + 8]>>)>>
       \o Sha512LoadW(data, i + 1)

\* Sha512ScheduleWord with s0 shifting by 6, the shift of s1.
Sha512ScheduleWordShiftSix(w, i) ==
  LET s0 == Xor(Xor(rotate_right(w[i - 15 + 1], 1), rotate_right(w[i - 15 + 1], 8)),
                Shr(w[i - 15 + 1], 6))
      s1 == Xor(Xor(rotate_right(w[i - 2 + 1], 19), rotate_right(w[i - 2 + 1], 61)),
                Shr(w[i - 2 + 1], 6))
  IN  wrapping_add(wrapping_add(wrapping_add(w[i - 16 + 1], s0), w[i - 7 + 1]), s1)

\* The schedule word w[i] for 16 <= i < 80 (w holds w[0..i-1], 1-indexed).
Sha512ScheduleWord(w, i) ==
  LET s0 == Xor(Xor(rotate_right(w[i - 15 + 1], 1), rotate_right(w[i - 15 + 1], 8)),
                Shr(w[i - 15 + 1], 7))
      s1 == Xor(Xor(rotate_right(w[i - 2 + 1], 19), rotate_right(w[i - 2 + 1], 61)),
                Shr(w[i - 2 + 1], 6))
  IN  wrapping_add(wrapping_add(wrapping_add(w[i - 16 + 1], s0), w[i - 7 + 1]), s1)

\* The loop for i in 16..80: extends w = w[0..i-1] one word at a time.
RECURSIVE Sha512ExpandW(_)
Sha512ExpandW(w) ==
  IF Len(w) = 80 THEN w
  ELSE Sha512ExpandW(Append(w, Sha512ScheduleWord(w, Len(w))))

\* The message schedule of one block.
Sha512Schedule(data) == Sha512ExpandW(Sha512LoadW(data, 0))

\* temp1 of one round: e, f, g, h are the working variables, ki = K[i], wi = w[i].
Sha512Temp1(e, f, g, h, ki, wi) ==
  LET s1 == Xor(Xor(rotate_right(e, 14), rotate_right(e, 18)), rotate_right(e, 41))
      ch == Xor(And(e, f), And(Not(e), g))
  IN  wrapping_add(wrapping_add(wrapping_add(wrapping_add(h, s1), ch), ki), wi)

\* Sha512Temp2 with the choice function where the source has the majority.
Sha512Temp2Choosing(a, b, c) ==
  LET s0 == Xor(Xor(rotate_right(a, 28), rotate_right(a, 34)), rotate_right(a, 39))
      maj == Xor(And(a, b), And(Not(a), c))
  IN  wrapping_add(s0, maj)

\* temp2 of one round.
Sha512Temp2(a, b, c) ==
  LET s0 == Xor(Xor(rotate_right(a, 28), rotate_right(a, 34)), rotate_right(a, 39))
      maj == Xor(Xor(And(a, b), And(a, c)), And(b, c))
  IN  wrapping_add(s0, maj)

\* The working variables <<a, ..., h>> after a round that computed temp1, temp2.
Sha512Rotate(v, temp1, temp2) ==
  <<wrapping_add(temp1, temp2), v[1], v[2], v[3],
    wrapping_add(v[4], temp1), v[5], v[6], v[7]>>

\* One round: v = <<a, b, c, d, e, f, g, h>>, ki = K[i], wi = w[i].
Sha512Round(v, ki, wi) ==
  Sha512Rotate(v, Sha512Temp1(v[5], v[6], v[7], v[8], ki, wi), Sha512Temp2(v[1], v[2], v[3]))

\* The loop for i in 0..80; s = [i |-> next round, v |-> <<a, ..., h>>].
RECURSIVE Sha512Rounds(_, _)
Sha512Rounds(s, w) ==
  IF s.i = 80 THEN s.v
  ELSE Sha512Rounds([i |-> s.i + 1,
                     v |-> Sha512Round(s.v, K_sha512[s.i + 1], w[s.i + 1])], w)

\* Sha512FeedForward without the addition: state.h[k] = working variable k.
Sha512FeedForwardDropped(h, v) == v

\* The feed-forward: state.h[k] = state.h[k].wrapping_add(working variable k).
Sha512FeedForward(h, v) ==
  <<wrapping_add(h[1], v[1]), wrapping_add(h[2], v[2]),
    wrapping_add(h[3], v[3]), wrapping_add(h[4], v[4]),
    wrapping_add(h[5], v[5]), wrapping_add(h[6], v[6]),
    wrapping_add(h[7], v[7]), wrapping_add(h[8], v[8])>>

\* sha512_transform_generic: the chaining state after one block.
sha512_transform_generic(h, data) ==
  Sha512FeedForward(h, Sha512Rounds([i |-> 0, v |-> h], Sha512Schedule(data)))

\* Sha512::new (blocks: the blocks handed to the transform so far, in order)
Sha512_new ==
  [state |-> Sha512State_new, buffer |-> Zeros(128), buffer_len |-> 0,
   total_len |-> NatToWord(0, 8), blocks |-> <<>>]

\* Sha512UpdateTopUp copying to buffer[..to_copy]: over the bytes the buffer
\* holds.
Sha512UpdateTopUpOverwriting(self, data) ==
  IF self.buffer_len > 0
  THEN LET to_copy == Min(128 - self.buffer_len, Len(data))
           buffer == SubSeq(data, 1, to_copy)
                     \o SubSeq(self.buffer, to_copy + 1, 128)
           buffer_len == self.buffer_len + to_copy
       IN  IF buffer_len = 128
           THEN [h |-> [self EXCEPT
                          !.state = sha512_transform_generic(self.state, buffer),
                          !.buffer = buffer,
                          !.buffer_len = 0,
                          !.blocks = Append(@, buffer)],
                 pos |-> to_copy]
           ELSE [h |-> [self EXCEPT !.buffer = buffer, !.buffer_len = buffer_len],
                 pos |-> to_copy]
  ELSE [h |-> self, pos |-> 0]

\* Sha512::update, the top-up of a non-empty buffer; the result carries pos.
Sha512UpdateTopUp(self, data) ==
  IF self.buffer_len > 0
  THEN LET to_copy == Min(128 - self.buffer_len, Len(data))
           buffer == SubSeq(self.buffer, 1, self.buffer_len)
                     \o SubSeq(data, 1, to_copy)
                     \o SubSeq(self.buffer, self.buffer_len + to_copy + 1, 128)
           buffer_len == self.buffer_len + to_copy
       IN  IF buffer_len = 128
           THEN [h |-> [self EXCEPT
                          !.state = sha512_transform_generic(self.state, buffer),
                          !.buffer = buffer,
                          !.buffer_len = 0,
                          !.blocks = Append(@, buffer)],
                 pos |-> to_copy]
           ELSE [h |-> [self EXCEPT !.buffer = buffer, !.buffer_len = buffer_len],
                 pos |-> to_copy]
  ELSE [h |-> self, pos |-> 0]

\* Sha512UpdateBlocks with  while pos + 128 < data.len(): a last full block
\* is left to the remainder, which fills the buffer to its end.
RECURSIVE Sha512UpdateBlocksStrict(_, _)
Sha512UpdateBlocksStrict(s, data) ==
  IF s.pos + 128 < Len(data)
  THEN LET block == SubSeq(data, s.pos + 1, s.pos + 128)
       IN  Sha512UpdateBlocksStrict(
             [h |-> [s.h EXCEPT
                       !.state = sha512_transform_generic(s.h.state, block),
                       !.blocks = Append(@, block)],
              pos |-> s.pos + 128], data)
  ELSE s

\* Sha512::update, the loop over the full blocks of data.
RECURSIVE Sha512UpdateBlocks(_, _)
Sha512UpdateBlocks(s, data) ==
  IF s.pos + 128 <= Len(data)
  THEN LET block == SubSeq(data, s.pos + 1, s.pos + 128)
       IN  Sha512UpdateBlocks(
             [h |-> [s.h EXCEPT
                       !.state = sha512_transform_generic(s.h.state, block),
                       !.blocks = Append(@, block)],
              pos |-> s.pos + 128], data)
  ELSE s

\* Sha512UpdateRemainder copying from the start of data, not from pos.
Sha512UpdateRemainderFromStart(s, data) ==
  IF s.pos < Len(data)
  THEN LET remaining == Len(data) - s.pos
       IN  [s.h EXCEPT
              !.buffer = SubSeq(data, 1, remaining)
                         \o SubSeq(s.h.buffer, remaining + 1, 128),
              !.buffer_len = remaining]
  ELSE s.h

\* Sha512::update, the copy of the remainder into the buffer.
Sha512UpdateRemainder(s, data) ==
  IF s.pos < Len(data)
  THEN LET remaining == Len(data) - s.pos
       IN  [s.h EXCEPT
              !.buffer = SubSeq(data, s.pos + 1, Len(data))
                         \o SubSeq(s.h.buffer, remaining + 1, 128),
              !.buffer_len = remaining]
  ELSE s.h

\* Sha512_update with total_len counting bits: += 8 * data.len().
Sha512_updateCountingBits(self, data) ==
  LET counted == [self EXCEPT
                    !.total_len = wrapping_add(@, NatToWord(8 * Len(data), 8))]
  IN  Sha512UpdateRemainder(
        Sha512UpdateBlocks(Sha512UpdateTopUp(counted, data), data), data)

\* Sha512::update
Sha512_update(self, data) ==
  LET counted == [self EXCEPT
                    !.total_len = wrapping_add(@, NatToWord(Len(data), 8))]
  IN  Sha512UpdateRemainder(
        Sha512UpdateBlocks(Sha512UpdateTopUp(counted, data), data), data)

\* Sha512::finalize, the loops  while buffer_len < bound { buffer[buffer_len] = 0; .. }
RECURSIVE Sha512ZeroFill(_, _)
Sha512ZeroFill(self, bound) ==
  IF self.buffer_len < bound
  THEN Sha512ZeroFill([self EXCEPT !.buffer[self.buffer_len + 1] = 0,
                                   !.buffer_len = @ + 1], bound)
  ELSE self

\* Sha512::finalize: buffer[buffer_len] = 0x80; buffer_len += 1
Sha512FinalizeMark(self) ==
  [self EXCEPT !.buffer[self.buffer_len + 1] = 128, !.buffer_len = @ + 1]

\* Sha512::finalize: sha512_transform_generic(&mut self.state, &self.buffer)
Sha512FinalizeTransform(self) ==
  [self EXCEPT !.state = sha512_transform_generic(self.state, self.buffer),
               !.blocks = Append(@, self.buffer)]

\* Sha512::finalize: if buffer_len > 112, fill the block with zeros, transform it
\* and set buffer_len = 0
Sha512FinalizeFirst(self) ==
  IF self.buffer_len > 112
  THEN [Sha512FinalizeTransform(Sha512ZeroFill(self, 128)) EXCEPT !.buffer_len = 0]
  ELSE self

\* Sha512::finalize: the length field and the last transform
Sha512FinalizeLast(self, bit_len) ==
  Sha512FinalizeTransform(
    [self EXCEPT !.buffer = SubSeq(self.buffer, 1, 112) \o to_be_bytes(bit_len)])

\* Sha512::finalize up to the last transform: the hasher it leaves.
Sha512FinalizeState(self) ==
  Sha512FinalizeLast(
    Sha512ZeroFill(Sha512FinalizeFirst(Sha512FinalizeMark(self)), 112),
    wrapping_mul(self.total_len, 8))

\* Sha512::finalize: the 64 digest bytes.
Sha512_finalize(self) == SerializeState(Sha512FinalizeState(self).state)

----------------------------------------------------------------------------
(* AArch64 vector registers and intrinsics: sha256_aarch64/src/main.rs,    *)
(* sha512_aarch64/src/main.rs.  A uint32x4_t is <<lane 0, .., lane 3>>, a  *)
(* uint64x2_t is <<lane 0, lane 1>>, a uint8x16_t is its 16 bytes; lane 0  *)
(* is bits <31:0> (or <63:0>) of the register and comes first in memory.   *)

\* x | y
Or(x, y) == Xor(Xor(x, y), And(x, y))

\* vld1q_u8(bytes[at..].as_ptr()): the 16 bytes from index at (from 0)
vld1q_u8(bytes, at) == SubSeq(bytes, at + 1, at + 16)

\* vrev32q_u8: the bytes of each 32-bit lane in reverse order
vrev32q_u8(v) ==
  <<v[4], v[3], v[2], v[1], v[8], v[7], v[6], v[5],
    v[12], v[11], v[10], v[9], v[16], v[15], v[14], v[13]>>

\* vrev64q_u8: the bytes of each 64-bit lane in reverse order
vrev64q_u8(v) ==
  <<v[8], v[7], v[6], v[5], v[4], v[3], v[2], v[1],
    v[16], v[15], v[14], v[13], v[12], v[11], v[10], v[9]>>

\* vreinterpretq_u32_u8: each lane is its four bytes, lowest byte first
vreinterpretq_u32_u8(v) ==
  <<<<v[4] * 256 + v[3], v[2] * 256 + v[1]>>,
    <<v[8] * 256 + v[7], v[6] * 256 + v[5]>>,
    <<v[12] * 256 + v[11], v[10] * 256 + v[9]>>,
    <<v[16] * 256 + v[15], v[14] * 256 + v[13]>>>>

\* vreinterpretq_u64_u8: each lane is its eight bytes, lowest byte first
vreinterpretq_u64_u8(v) ==
  <<<<v[8] * 256 + v[7], v[6] * 256 + v[5], v[4] * 256 + v[3], v[2] * 256 + v[1]>>,
    <<v[16] * 256 + v[15], v[14] * 256 + v[13],
      v[12] * 256 + v[11], v[10] * 256 + v[9]>>>>

\* vld1q_u32(words[at..].as_ptr()), vld1q_u64(words[at..].as_ptr())
vld1q_u32(words, at) == SubSeq(words, at + 1, at + 4)
vld1q_u64(words, at) == SubSeq(words, at + 1, at + 2)

\* vaddq_u32, vaddq_u64: lane-wise addition modulo 2^32, 2^64
vaddq_u32(a, b) ==
  <<wrapping_add(a[1], b[1]), wrapping_add(a[2], b[2]),
    wrapping_add(a[3], b[3]), wrapping_add(a[4], b[4])>>
vaddq_u64(a, b) == <<wrapping_add(a[1], b[1]), wrapping_add(a[2], b[2])>>

\* vextq_u64(a, b, n): lanes n, n + 1 of the four lanes a[0], a[1], b[0], b[1]
vextq_u64(a, b, n) == SubSeq(a \o b, n + 1, n + 2)

----------------------------------------------------------------------------
(* The SHA-256 instructions behind the asm! wrappers, as the Arm           *)
(* Architecture Reference Manual defines them.                             *)

SHAchoose(x, y, z) == Xor(And(Xor(y, z), x), z)
SHAmajority(x, y, z) == Or(And(x, y), And(Or(x, y), z))
SHAhashSIGMA0(x) == Xor(Xor(rotate_right(x, 2), rotate_right(x, 13)), rotate_right(x, 22))
SHAhashSIGMA1(x) == Xor(Xor(rotate_right(x, 6), rotate_right(x, 11)), rotate_right(x, 25))

\* One iteration of SHA256hash, t already computed:
\*   x<127:96> = t + x<127:96>; y<127:96> = t + SIGMA0(x<31:0>) + maj;
\*   <y, x> = ROL(y : x, 32)
SHA256hashRotate(e, x, y, t) ==
  [e |-> e + 1,
   x |-> <<wrapping_add(wrapping_add(t, SHAhashSIGMA0(x[1])),
                        SHAmajority(x[1], x[2], x[3])),
           x[1], x[2], x[3]>>,
   y |-> <<wrapping_add(t, x[4]), y[1], y[2], y[3]>>]

\* SHA256hash, for e = s.e to 3:
\*   t = y<127:96> + SIGMA1(y<31:0>) + SHAchoose(y<31:0>, y<63:32>, y<95:64>) + w[e]
RECURSIVE SHA256hash(_, _)
SHA256hash(s, w) ==
  IF s.e = 4 THEN s
  ELSE SHA256hash(
         SHA256hashRotate(s.e, s.x, s.y,
           wrapping_add(
             wrapping_add(wrapping_add(s.y[4], SHAhashSIGMA1(s.y[1])),
                          SHAchoose(s.y[1], s.y[2], s.y[3])),
             w[s.e + 1])),
         w)

\* vsha256hq_u32: SHA256H Qd, Qn, Vm.4S with Qd = hash_efgh, Qn = hash_abcd,
\* Vm = wk; the result is x of SHA256hash(X = Qd, Y = Qn, W = Vm).
vsha256hq_u32(hash_efgh, hash_abcd, wk) ==
  SHA256hash([e |-> 0, x |-> hash_efgh, y |-> hash_abcd], wk).x

\* vsha256h2q_u32: SHA256H2 Qd, Qn, Vm.4S; the result is y of
\* SHA256hash(X = Qn, Y = Qd, W = Vm).
vsha256h2q_u32(hash_efgh, hash_abcd, wk) ==
  SHA256hash([e |-> 0, x |-> hash_abcd, y |-> hash_efgh], wk).y

\* ROR(elt, 7) EOR ROR(elt, 18) EOR LSR(elt, 3)
SHA256SU0Sigma(elt) == Xor(Xor(rotate_right(elt, 7), rotate_right(elt, 18)), Shr(elt, 3))

\* ROR(elt, 17) EOR ROR(elt, 19) EOR LSR(elt, 10)
SHA256SU1Sigma(elt) == Xor(Xor(rotate_right(elt, 17), rotate_right(elt, 19)), Shr(elt, 10))

\* vsha256su0q_u32: SHA256SU0 Vd.4S, Vn.4S with Vd = w0_3, Vn = w4_7:
\*   T = Vn<31:0> : Vd<127:32>; result[e] = sigma(T[e]) + Vd[e]
vsha256su0q_u32(w0_3, w4_7) ==
  <<wrapping_add(SHA256SU0Sigma(w0_3[2]), w0_3[1]),
    wrapping_add(SHA256SU0Sigma(w0_3[3]), w0_3[2]),
    wrapping_add(SHA256SU0Sigma(w0_3[4]), w0_3[3]),
    wrapping_add(SHA256SU0Sigma(w4_7[1]), w0_3[4])>>

\* SHA256SU1, elements 2 and 3: T1 = result<63:0>
SHA256SU1High(tw0_3, w8_11, w12_15, r0, r1) ==
  <<r0, r1,
    wrapping_add(wrapping_add(SHA256SU1Sigma(r0), tw0_3[3]), w8_11[4]),
    wrapping_add(wrapping_add(SHA256SU1Sigma(r1), tw0_3[4]), w12_15[1])>>

\* vsha256su1q_u32: SHA256SU1 Vd.4S, Vn.4S, Vm.4S with Vd = tw0_3, Vn = w8_11,
\* Vm = w12_15:  T0 = Vm<31:0> : Vn<127:32>; T1 = Vm<127:64>;
\*   result[e] = sigma(T1[e]) + Vd[e] + T0[e]  for e = 0, 1
vsha256su1q_u32(tw0_3, w8_11, w12_15) ==
  SHA256SU1High(tw0_3, w8_11, w12_15,
    wrapping_add(wrapping_add(SHA256SU1Sigma(w12_15[3]), tw0_3[1]), w8_11[2]),
    wrapping_add(wrapping_add(SHA256SU1Sigma(w12_15[4]), tw0_3[2]), w8_11[3]))

\* K32 cut to its first 32 entries.
K32Short == SubSeq(K_sha256, 1, 32)

\* K32 of sha256_aarch64
K32 ==
  <<<<\h428a, \h2f98>>, <<\h7137, \h4491>>, <<\hb5c0, \hfbcf>>, <<\he9b5, \hdba5>>,
    <<\h3956, \hc25b>>, <<\h59f1, \h11f1>>, <<\h923f, \h82a4>>, <<\hab1c, \h5ed5>>,
    <<\hd807, \haa98>>, <<\h1283, \h5b01>>, <<\h2431, \h85be>>, <<\h550c, \h7dc3>>,
    <<\h72be, \h5d74>>, <<\h80de, \hb1fe>>, <<\h9bdc, \h06a7>>, <<\hc19b, \hf174>>,
    <<\he49b, \h69c1>>, <<\hefbe, \h4786>>, <<\h0fc1, \h9dc6>>, <<\h240c, \ha1cc>>,
    <<\h2de9, \h2c6f>>, <<\h4a74, \h84aa>>, <<\h5cb0, \ha9dc>>, <<\h76f9, \h88da>>,
    <<\h983e, \h5152>>, <<\ha831, \hc66d>>, <<\hb003, \h27c8>>, <<\hbf59, \h7fc7>>,
    <<\hc6e0, \h0bf3>>, <<\hd5a7, \h9147>>, <<\h06ca, \h6351>>, <<\h1429, \h2967>>,
    <<\h27b7, \h0a85>>, <<\h2e1b, \h2138>>, <<\h4d2c, \h6dfc>>, <<\h5338, \h0d13>>,
    <<\h650a, \h7354>>, <<\h766a, \h0abb>>, <<\h81c2, \hc92e>>, <<\h9272, \h2c85>>,
    <<\ha2bf, \he8a1>>, <<\ha81a, \h664b>>, <<\hc24b, \h8b70>>, <<\hc76c, \h51a3>>,
    <<\hd192, \he819>>, <<\hd699, \h0624>>, <<\hf40e, \h3585>>, <<\h106a, \ha070>>,
    <<\h19a4, \hc116>>, <<\h1e37, \h6c08>>, <<\h2748, \h774c>>, <<\h34b0, \hbcb5>>,
    <<\h391c, \h0cb3>>, <<\h4ed8, \haa4a>>, <<\h5b9c, \hca4f>>, <<\h682e, \h6ff3>>,
    <<\h748f, \h82ee>>, <<\h78a5, \h636f>>, <<\h84c8, \h7814>>, <<\h8cc7, \h0208>>,
    <<\h90be, \hfffa>>, <<\ha450, \h6ceb>>, <<\hbef9, \ha3f7>>, <<\hc671, \h78f2>>>>

\* Sha256HwRound4Tmp with the operands of vsha256h2q_u32 exchanged.
Sha256HwRound4TmpExchanged(r, tmp) ==
  [r EXCEPT !.abcd = vsha256hq_u32(r.abcd, r.efgh, tmp),
            !.efgh = vsha256h2q_u32(r.abcd, r.efgh, tmp)]

\* round4!(s, t), r = [abcd, efgh, s0, s1, s2, s3], tmp = s + K32[t..t+4]
Sha256HwRound4Tmp(r, tmp) ==
  [r EXCEPT !.abcd = vsha256hq_u32(r.abcd, r.efgh, tmp),
            !.efgh = vsha256h2q_u32(r.efgh, r.abcd, tmp)]

round4(r, s, t) == Sha256HwRound4Tmp(r, vaddq_u32(s, vld1q_u32(K32, t)))

\* The block loaded into s0..s3 and the first 16 rounds.
Sha256HwLoad(abcd, efgh, block) ==
  [abcd |-> abcd, efgh |-> efgh,
   s0 |-> vreinterpretq_u32_u8(vrev32q_u8(vld1q_u8(block, 0))),
   s1 |-> vreinterpretq_u32_u8(vrev32q_u8(vld1q_u8(block, 16))),
   s2 |-> vreinterpretq_u32_u8(vrev32q_u8(vld1q_u8(block, 32))),
   s3 |-> vreinterpretq_u32_u8(vrev32q_u8(vld1q_u8(block, 48)))]

Sha256HwRound_s0(r, t) == round4(r, r.s0, t)
Sha256HwRound_s1(r, t) == round4(r, r.s1, t)
Sha256HwRound_s2(r, t) == round4(r, r.s2, t)
Sha256HwRound_s3(r, t) == round4(r, r.s3, t)

Sha256HwFirst16(r) ==
  Sha256HwRound_s3(Sha256HwRound_s2(Sha256HwRound_s1(Sha256HwRound_s0(r, 0), 4), 8), 12)

\* The message-schedule updates of the loop body.
Sha256HwSchedule_s0(r) ==
  [r EXCEPT !.s0 = vsha256su1q_u32(vsha256su0q_u32(r.s0, r.s1), r.s2, r.s3)]
Sha256HwSchedule_s1(r) ==
  [r EXCEPT !.s1 = vsha256su1q_u32(vsha256su0q_u32(r.s1, r.s2), r.s3, r.s0)]
Sha256HwSchedule_s2(r) ==
  [r EXCEPT !.s2 = vsha256su1q_u32(vsha256su0q_u32(r.s2, r.s3), r.s0, r.s1)]
Sha256HwSchedule_s3(r) ==
  [r EXCEPT !.s3 = vsha256su1q_u32(vsha256su0q_u32(r.s3, r.s0), r.s1, r.s2)]

\* The body of  for t in (16..64).step_by(16)
Sha256HwLoopBody(r, t) ==
  Sha256HwRound_s3(Sha256HwSchedule_s3(
    Sha256HwRound_s2(Sha256HwSchedule_s2(
      Sha256HwRound_s1(Sha256HwSchedule_s1(
        Sha256HwRound_s0(Sha256HwSchedule_s0(r), t)), t + 4)), t + 8)), t + 12)

\* for t in (16..64).step_by(16)
RECURSIVE Sha256HwLoop(_, _)
Sha256HwLoop(r, t) ==
  IF t < 64 /\ Len(r.abcd) = 4
  THEN Sha256HwLoop(Sha256HwLoopBody(r, t), t + 16)
  ELSE r

\* The feed-forward of one block: abcd += abcd_orig, efgh += efgh_orig.
Sha256HwFeedForward(r, abcd_orig, efgh_orig) ==
  [abcd |-> vaddq_u32(r.abcd, abcd_orig), efgh |-> vaddq_u32(r.efgh, efgh_orig)]

\* The body of  for block in blocks, regs = [abcd, efgh]
Sha256HwBlock(regs, block) ==
  Sha256HwFeedForward(
    Sha256HwLoop(Sha256HwFirst16(Sha256HwLoad(regs.abcd, regs.efgh, block)), 16),
    regs.abcd, regs.efgh)

\* Sha256HwBlocks that starts every block from the registers it was given:
\* the state is not carried from one block to the next.
Sha256HwBlocksRestarting(regs, blocks) ==
  IF blocks = <<>> \/ Len(regs.abcd) # 4 THEN regs
  ELSE Sha256HwBlock(regs, blocks[Len(blocks)])

\* for block in blocks
RECURSIVE Sha256HwBlocks(_, _)
Sha256HwBlocks(regs, blocks) ==
  IF blocks = <<>> \/ Len(regs.abcd) # 4 THEN regs
  ELSE Sha256HwBlocks(Sha256HwBlock(regs, Head(blocks)), Tail(blocks))

\* vst1q_u32 of abcd and efgh into state[0..4] and state[4..8]
Sha256HwStore(regs) == regs.abcd \o regs.efgh

\* sha256_compress: the state array it leaves.
sha256_compress(state, blocks) ==
  Sha256HwStore(
    Sha256HwBlocks([abcd |-> vld1q_u32(state, 0), efgh |-> vld1q_u32(state, 4)],
                   blocks))

\* compress256
compress256(state, blocks) == sha256_compress(state, blocks)

----------------------------------------------------------------------------
(* The SHA-512 instructions behind the asm! wrappers of sha512_compress_hw, *)
(* as the Arm Architecture Reference Manual defines them.                   *)

\* ROR(x, 14) EOR ROR(x, 18) EOR ROR(x, 41)
SHA512MSigma1(x) == Xor(Xor(rotate_right(x, 14), rotate_right(x, 18)), rotate_right(x, 41))

\* ROR(x, 28) EOR ROR(x, 34) EOR ROR(x, 39)
SHA512NSigma0(x) == Xor(Xor(rotate_right(x, 28), rotate_right(x, 34)), rotate_right(x, 39))

\* SHA512H, the low half, tmp = Vtmp<127:64> + Y<63:0>:
\*   Vtmp<63:0> = ((tmp AND Y<127:64>) EOR (NOT(tmp) AND X<63:0>)) + MSigma1(tmp) + W<63:0>
SHA512HLow(W, X, Y, vtmp1, tmp) ==
  <<wrapping_add(
      wrapping_add(Xor(And(tmp, Y[2]), And(Not(tmp), X[1])), SHA512MSigma1(tmp)),
      W[1]),
    vtmp1>>

SHA512HTmp(W, X, Y, vtmp1) == SHA512HLow(W, X, Y, vtmp1, wrapping_add(vtmp1, Y[1]))

\* vsha512hq_u64: SHA512H Qd, Qn, Vm.2D with Qd = hash_ed (W), Qn = hash_gf (X),
\* Vm = kwh_kwh2 (Y):
\*   Vtmp<127:64> = ((Y<127:64> AND X<63:0>) EOR (NOT(Y<127:64>) AND X<127:64>))
\*                  + MSigma1(Y<127:64>) + W<127:64>
vsha512hq_u64(hash_ed, hash_gf, kwh_kwh2) ==
  SHA512HTmp(hash_ed, hash_gf, kwh_kwh2,
    wrapping_add(
      wrapping_add(
        Xor(And(kwh_kwh2[2], hash_gf[1]), And(Not(kwh_kwh2[2]), hash_gf[2])),
        SHA512MSigma1(kwh_kwh2[2])),
      hash_ed[2]))

\* SHA512H2, the low half:
\*   Vtmp<63:0> = ((Vtmp<127:64> AND Y<63:0>) EOR (Vtmp<127:64> AND Y<127:64>)
\*                 EOR (Y<127:64> AND Y<63:0>)) + NSigma0(Vtmp<127:64>) + W<63:0>
SHA512H2Low(W, Y, vtmp1) ==
  <<wrapping_add(
      wrapping_add(
        Xor(Xor(And(vtmp1, Y[1]), And(vtmp1, Y[2])), And(Y[2], Y[1])),
        SHA512NSigma0(vtmp1)),
      W[1]),
    vtmp1>>

\* vsha512h2q_u64: SHA512H2 Qd, Qn, Vm.2D with Qd = sum_ab (W), Qn = hash_c_ (X),
\* Vm = hash_ab (Y):
\*   Vtmp<127:64> = ((X<63:0> AND Y<127:64>) EOR (X<63:0> AND Y<63:0>)
\*                   EOR (Y<127:64> AND Y<63:0>)) + NSigma0(Y<63:0>) + W<127:64>
vsha512h2q_u64(sum_ab, hash_c_, hash_ab) ==
  SHA512H2Low(sum_ab, hash_ab,
    wrapping_add(
      wrapping_add(
        Xor(Xor(And(hash_c_[1], hash_ab[2]), And(hash_c_[1], hash_ab[1])),
            And(hash_ab[2], hash_ab[1])),
        SHA512NSigma0(hash_ab[1])),
      sum_ab[2]))

\* ROR(x, 1) EOR ROR(x, 8) EOR LSR(x, 7)
SHA512SU0Sigma(x) == Xor(Xor(rotate_right(x, 1), rotate_right(x, 8)), Shr(x, 7))

\* ROR(x, 19) EOR ROR(x, 61) EOR LSR(x, 6)
SHA512SU1Sigma(x) == Xor(Xor(rotate_right(x, 19), rotate_right(x, 61)), Shr(x, 6))

\* vsha512su0q_u64: SHA512SU0 Vd.2D, Vn.2D with Vd = w0_1 (W), Vn = w2_ (X):
\*   Vtmp<63:0> = W<63:0> + sigma(W<127:64>); Vtmp<127:64> = W<127:64> + sigma(X<63:0>)
vsha512su0q_u64(w0_1, w2_) ==
  <<wrapping_add(w0_1[1], SHA512SU0Sigma(w0_1[2])),
    wrapping_add(w0_1[2], SHA512SU0Sigma(w2_[1]))>>

\* vsha512su1q_u64: SHA512SU1 Vd.2D, Vn.2D, Vm.2D with Vd = s01_s02 (W),
\* Vn = w14_15 (X), Vm = w9_10 (Y):
\*   Vtmp<127:64> = W<127:64> + sigma(X<127:64>) + Y<127:64>
\*   Vtmp<63:0> = W<63:0> + sigma(X<63:0>) + Y<63:0>
vsha512su1q_u64(s01_s02, w14_15, w9_10) ==
  <<wrapping_add(wrapping_add(s01_s02[1], SHA512SU1Sigma(w14_15[1])), w9_10[1]),
    wrapping_add(wrapping_add(s01_s02[2], SHA512SU1Sigma(w14_15[2])), w9_10[2])>>

\* K64 of sha512_aarch64
K64 ==
  <<<<\h428a, \h2f98, \hd728, \hae22>>, <<\h7137, \h4491, \h23ef, \h65cd>>,
    <<\hb5c0, \hfbcf, \hec4d, \h3b2f>>, <<\he9b5, \hdba5, \h8189, \hdbbc>>,
    <<\h3956, \hc25b, \hf348, \hb538>>, <<\h59f1, \h11f1, \hb605, \hd019>>,
    <<\h923f, \h82a4, \haf19, \h4f9b>>, <<\hab1c, \h5ed5, \hda6d, \h8118>>,
    <<\hd807, \haa98, \ha303, \h0242>>, <<\h1283, \h5b01, \h4570, \h6fbe>>,
    <<\h2431, \h85be, \h4ee4, \hb28c>>, <<\h550c, \h7dc3, \hd5ff, \hb4e2>>,
    <<\h72be, \h5d74, \hf27b, \h896f>>, <<\h80de, \hb1fe, \h3b16, \h96b1>>,
    <<\h9bdc, \h06a7, \h25c7, \h1235>>, <<\hc19b, \hf174, \hcf69, \h2694>>,
    <<\he49b, \h69c1, \h9ef1, \h4ad2>>, <<\hefbe, \h4786, \h384f, \h25e3>>,
    <<\h0fc1, \h9dc6, \h8b8c, \hd5b5>>, <<\h240c, \ha1cc, \h77ac, \h9c65>>,
    <<\h2de9, \h2c6f, \h592b, \h0275>>, <<\h4a74, \h84aa, \h6ea6, \he483>>,
    <<\h5cb0, \ha9dc, \hbd41, \hfbd4>>, <<\h76f9, \h88da, \h8311, \h53b5>>,
    <<\h983e, \h5152, \hee66, \hdfab>>, <<\ha831, \hc66d, \h2db4, \h3210>>,
    <<\hb003, \h27c8, \h98fb, \h213f>>, <<\hbf59, \h7fc7, \hbeef, \h0ee4>>,
    <<\hc6e0, \h0bf3, \h3da8, \h8fc2>>, <<\hd5a7, \h9147, \h930a, \ha725>>,
    <<\h06ca, \h6351, \he003, \h826f>>, <<\h1429, \h2967, \h0a0e, \h6e70>>,
    <<\h27b7, \h0a85, \h46d2, \h2ffc>>, <<\h2e1b, \h2138, \h5c26, \hc926>>,
    <<\h4d2c, \h6dfc, \h5ac4, \h2aed>>, <<\h5338, \h0d13, \h9d95, \hb3df>>,
    <<\h650a, \h7354, \h8baf, \h63de>>, <<\h766a, \h0abb, \h3c77, \hb2a8>>,
    <<\h81c2, \hc92e, \h47ed, \haee6>>, <<\h9272, \h2c85, \h1482, \h353b>>,
    <<\ha2bf, \he8a1, \h4cf1, \h0364>>, <<\ha81a, \h664b, \hbc42, \h3001>>,
    <<\hc24b, \h8b70, \hd0f8, \h9791>>, <<\hc76c, \h51a3, \h0654, \hbe30>>,
    <<\hd192, \he819, \hd6ef, \h5218>>, <<\hd699, \h0624, \h5565, \ha910>>,
    <<\hf40e, \h3585, \h5771, \h202a>>, <<\h106a, \ha070, \h32bb, \hd1b8>>,
    <<\h19a4, \hc116, \hb8d2, \hd0c8>>, <<\h1e37, \h6c08, \h5141, \hab53>>,
    <<\h2748, \h774c, \hdf8e, \heb99>>, <<\h34b0, \hbcb5, \he19b, \h48a8>>,
    <<\h391c, \h0cb3, \hc5c9, \h5a63>>, <<\h4ed8, \haa4a, \he341, \h8acb>>,
    <<\h5b9c, \hca4f, \h7763, \he373>>, <<\h682e, \h6ff3, \hd6b2, \hb8a3>>,
    <<\h748f, \h82ee, \h5def, \hb2fc>>, <<\h78a5, \h636f, \h4317, \h2f60>>,
    <<\h84c8, \h7814, \ha1f0, \hab72>>, <<\h8cc7, \h0208, \h1a64, \h39ec>>,
    <<\h90be, \hfffa, \h2363, \h1e28>>, <<\ha450, \h6ceb, \hde82, \hbde9>>,
    <<\hbef9, \ha3f7, \hb2c6, \h7915>>, <<\hc671, \h78f2, \he372, \h532b>>,
    <<\hca27, \h3ece, \hea26, \h619c>>, <<\hd186, \hb8c7, \h21c0, \hc207>>,
    <<\heada, \h7dd6, \hcde0, \heb1e>>, <<\hf57d, \h4f7f, \hee6e, \hd178>>,
    <<\h06f0, \h67aa, \h7217, \h6fba>>, <<\h0a63, \h7dc5, \ha2c8, \h98a6>>,
    <<\h113f, \h9804, \hbef9, \h0dae>>, <<\h1b71, \h0b35, \h131c, \h471b>>,
    <<\h28db, \h77f5, \h2304, \h7d84>>, <<\h32ca, \hab7b, \h40c7, \h2493>>,
    <<\h3c9e, \hbe0a, \h15c9, \hbebc>>, <<\h431d, \h67c4, \h9c10, \h0d4c>>,
    <<\h4cc5, \hd4be, \hcb3e, \h42b6>>, <<\h597f, \h299c, \hfc65, \h7e2a>>,
    <<\h5fcb, \h6fab, \h3ad6, \hfaec>>, <<\h6c44, \h198c, \h4a47, \h5817>>>>

\* The registers of sha512_compress_hw with the block loaded into s0..s7.
Sha512HwLoad(regs, block) ==
  [ab |-> regs.ab, cd |-> regs.cd, ef |-> regs.ef, gh |-> regs.gh,
   s0 |-> vreinterpretq_u64_u8(vrev64q_u8(vld1q_u8(block, 0))),
   s1 |-> vreinterpretq_u64_u8(vrev64q_u8(vld1q_u8(block, 16))),
   s2 |-> vreinterpretq_u64_u8(vrev64q_u8(vld1q_u8(block, 32))),
   s3 |-> vreinterpretq_u64_u8(vrev64q_u8(vld1q_u8(block, 48))),
   s4 |-> vreinterpretq_u64_u8(vrev64q_u8(vld1q_u8(block, 64))),
   s5 |-> vreinterpretq_u64_u8(vrev64q_u8(vld1q_u8(block, 80))),
   s6 |-> vreinterpretq_u64_u8(vrev64q_u8(vld1q_u8(block, 96))),
   s7 |-> vreinterpretq_u64_u8(vrev64q_u8(vld1q_u8(block, 112)))]

\* Sha512HwSum without the exchange of the two lanes of initial_sum.
Sha512HwSumNoExchange(initial_sum, reg) == vaddq_u64(initial_sum, reg)

\* sum = vaddq_u64(vextq_u64(initial_sum, initial_sum, 1), reg)
Sha512HwSum(initial_sum, reg) == vaddq_u64(vextq_u64(initial_sum, initial_sum, 1), reg)

\* The last two statements of a round pair:
\*   w = vsha512h2q_u64(intermed, y, z); y = vaddq_u64(y, intermed)
Sha512HwApply(r, w, y, z, intermed) ==
  [r EXCEPT ![w] = vsha512h2q_u64(intermed, r[y], r[z]),
            ![y] = vaddq_u64(r[y], intermed)]

\* Two rounds on schedule register s with constants K64[t], K64[t + 1] and
\* the state registers in the roles w, x, y, z:
\*   initial_sum = vaddq_u64(s, vld1q_u64(&K64[t]))
\*   sum = vaddq_u64(vextq_u64(initial_sum, initial_sum, 1), w)
\*   intermed = vsha512hq_u64(sum, vextq_u64(x, w, 1), vextq_u64(y, x, 1))
Sha512HwRounds(r, s, t, w, x, y, z) ==
  Sha512HwApply(r, w, y, z,
    vsha512hq_u64(Sha512HwSum(vaddq_u64(r[s], vld1q_u64(K64, t)), r[w]),
                  vextq_u64(r[x], r[w], 1), vextq_u64(r[y], r[x], 1)))

\* The first 16 rounds.
Sha512HwFirst16(r) ==
  Sha512HwRounds(
   Sha512HwRounds(
    Sha512HwRounds(
     Sha512HwRounds(
      Sha512HwRounds(
       Sha512HwRounds(
        Sha512HwRounds(
         Sha512HwRounds(r, "s0", 0, "gh", "ef", "cd", "ab"),
         "s1", 2, "ef", "cd", "ab", "gh"),
        "s2", 4, "cd", "ab", "gh", "ef"),
       "s3", 6, "ab", "gh", "ef", "cd"),
      "s4", 8, "gh", "ef", "cd", "ab"),
     "s5", 10, "ef", "cd", "ab", "gh"),
    "s6", 12, "cd", "ab", "gh", "ef"),
   "s7", 14, "ab", "gh", "ef", "cd")

\* s = vsha512su1q_u64(vsha512su0q_u64(s, s_next), s_prev, vextq_u64(p, q, 1))
Sha512HwSchedule(r, s, s_next, s_prev, p, q) ==
  [r EXCEPT ![s] = vsha512su1q_u64(vsha512su0q_u64(r[s], r[s_next]), r[s_prev],
                                   vextq_u64(r[p], r[q], 1))]

\* The body of  for t in (16..80).step_by(16)
Sha512HwLoopBody(r, t) ==
  Sha512HwRounds(Sha512HwSchedule(
   Sha512HwRounds(Sha512HwSchedule(
    Sha512HwRounds(Sha512HwSchedule(
     Sha512HwRounds(Sha512HwSchedule(
      Sha512HwRounds(Sha512HwSchedule(
       Sha512HwRounds(Sha512HwSchedule(
        Sha512HwRounds(Sha512HwSchedule(
         Sha512HwRounds(Sha512HwSchedule(r, "s0", "s1", "s7", "s4", "s5"),
                        "s0", t, "gh", "ef", "cd", "ab"),
         "s1", "s2", "s0", "s5", "s6"), "s1", t + 2, "ef", "cd", "ab", "gh"),
        "s2", "s3", "s1", "s6", "s7"), "s2", t + 4, "cd", "ab", "gh", "ef"),
       "s3", "s4", "s2", "s7", "s0"), "s3", t + 6, "ab", "gh", "ef", "cd"),
      "s4", "s5", "s3", "s0", "s1"), "s4", t + 8, "gh", "ef", "cd", "ab"),
     "s5", "s6", "s4", "s1", "s2"), "s5", t + 10, "ef", "cd", "ab", "gh"),
    "s6", "s7", "s5", "s2", "s3"), "s6", t + 12, "cd", "ab", "gh", "ef"),
   "s7", "s0", "s6", "s3", "s4"), "s7", t + 14, "ab", "gh", "ef", "cd")

\* for t in (16..80).step_by(16)
RECURSIVE Sha512HwLoop(_, _)
Sha512HwLoop(r, t) ==
  IF t < 80 /\ Len(r.ab) = 2
  THEN Sha512HwLoop(Sha512HwLoopBody(r, t), t + 16)
  ELSE r

\* The feed-forward of one block: ab += ab_orig, ..., gh += gh_orig.
Sha512HwFeedForward(r, orig) ==
  [ab |-> vaddq_u64(r.ab, orig.ab), cd |-> vaddq_u64(r.cd, orig.cd),
   ef |-> vaddq_u64(r.ef, orig.ef), gh |-> vaddq_u64(r.gh, orig.gh)]

\* The body of  for block in blocks, regs = [ab, cd, ef, gh]
Sha512HwBlock(regs, block) ==
  Sha512HwFeedForward(Sha512HwLoop(Sha512HwFirst16(Sha512HwLoad(regs, block)), 16), regs)

\* for block in blocks
RECURSIVE Sha512HwBlocks(_, _)
Sha512HwBlocks(regs, blocks) ==
  IF blocks = <<>> \/ Len(regs.ab) # 2 THEN regs
  ELSE Sha512HwBlocks(Sha512HwBlock(regs, Head(blocks)), Tail(blocks))

\* vst1q_u64 of ab, cd, ef, gh into state[0..2], .., state[6..8]
Sha512HwStore(regs) == regs.ab \o regs.cd \o regs.ef \o regs.gh

\* sha512_compress_hw: the state array it leaves.
sha512_compress_hw(state, blocks) ==
  Sha512HwStore(
    Sha512HwBlocks([ab |-> vld1q_u64(state, 0), cd |-> vld1q_u64(state, 2),
                    ef |-> vld1q_u64(state, 4), gh |-> vld1q_u64(state, 6)],
                   blocks))

----------------------------------------------------------------------------
(* State                                                                   *)

\* A caller driving one incremental hasher (Spec)
VARIABLES
  alg,       \* "sha256" or "sha512": which hasher the caller created
  hasher,    \* the Sha256 / Sha512 value
  pc,        \* "open" until finalize has consumed the hasher, then "finalized"
  fed,       \* every byte passed to update so far, in order
  updates,   \* the number of update calls made
  pre,       \* the hasher as finalize received it
  digest     \* the bytes finalize returned

\* One chaining state and one slice of blocks given to the generic and to
\* the hardware transform (CompressSpec)
VARIABLES
  ckind,     \* "sha256" or "sha512"
  cstate,    \* the 8-word chaining state both transforms start from
  cblocks,   \* the blocks
  cgeneric,  \* the state the generic transform left, <<>> before it ran
  chardware  \* the state the hardware transform left, <<>> before it ran

\* The two AArch64 benchmark programs (MainSpec)
VARIABLES
  prog,      \* "sha256_aarch64" or "sha512_aarch64"
  detected,  \* what a feature query for the program's extension reports
  mpc,       \* where main is: "start", ..., "exit"; "killed" after a trap
  queries,   \* the number of feature queries main has made
  reported,  \* TRUE once main has printed that the hardware is unsupported
  hw_calls,  \* the number of calls of compress256 / sha512_compress_hw made
  hw_issued, \* the number of those calls whose SHA instructions executed
  mstate,    \* the state array the next call works on
  printed,   \* the state print_state showed after the first call, or <<>>
  mi,        \* the loop counter (the outer one of the nested loops)
  mj,        \* the inner loop counter
  times      \* the measured times: 0 for a reading of zero, 1 otherwise

\* A hasher that has already absorbed a long message (LengthSpec); it uses
\* the variables of Spec for the hasher itself
VARIABLES
  absorbed,        \* the number of bytes absorbed so far, exact, as 9 limbs
  overflow_checks  \* TRUE where the build panics on arithmetic overflow
                   \* (the dev profile), FALSE where it wraps (release)

\* Several hashers used in turn by one caller (InstancesSpec)
VARIABLES
  insts      \* instance number -> [alg, hasher, pc, fed, updates, digest]

\* The loops of update and finalize taken one iteration at a time (LoopSpec);
\* the bytes play no part in them, only the lengths do
VARIABLES
  loop_alg,        \* "sha256" or "sha512"
  loop_pc,         \* "ready" between calls; inside a call "update_loop",
                   \* "first_fill" or "second_fill"; "returned" after finalize
  loop_len,        \* data.len() of the update call in progress
  loop_pos,        \* pos
  loop_buffer_len, \* self.buffer_len
  loop_calls       \* the number of update calls begun

hvars == <<alg, hasher, pc, fed, updates, pre, digest>>
cvars == <<ckind, cstate, cblocks, cgeneric, chardware>>
mvars == <<prog, detected, mpc, queries, reported, hw_calls, hw_issued, mstate,
           printed, mi, mj, times>>
lvars == <<absorbed, overflow_checks>>
ivars == <<insts>>
loopvars == <<loop_alg, loop_pc, loop_len, loop_pos, loop_buffer_len, loop_calls>>
vars == <<hvars, cvars, mvars, lvars, ivars, loopvars>>

Algs == {"sha256", "sha512"}

BlockSize(a) == IF a = "sha256" THEN 64 ELSE 128
LengthFieldSize(a) == IF a = "sha256" THEN 8 ELSE 16

\* Byte p (from 0) of the message: the FIPS 180-4 two-block test messages
\* "abcdbcdecdef..." (SHA-256) and "abcdefghbcdefghi..." (SHA-512), continued
\* by the same rule.
StreamByte(a, p) ==
  IF a = "sha256" THEN 97 + (p \div 4) + (p % 4) ELSE 97 + (p \div 8) + (p % 8)

\* The n message bytes that follow the first from bytes.
StreamSlice(a, from, n) ==
  SubSeq([i \in 1..(from + n) |-> StreamByte(a, i - 1)], from + 1, from + n)

\* The values the variables of the parts that do not run hold.
HasherIdle ==
  /\ alg = "none" /\ hasher = <<>> /\ pc = "idle" /\ fed = <<>>
  /\ updates = 0 /\ pre = <<>> /\ digest = <<>>
CompressIdle ==
  /\ ckind = "none" /\ cstate = <<>> /\ cblocks = <<>>
  /\ cgeneric = <<>> /\ chardware = <<>>
MainIdle ==
  /\ prog = "none" /\ detected = FALSE /\ mpc = "idle" /\ queries = 0
  /\ reported = FALSE /\ hw_calls = 0 /\ hw_issued = 0 /\ mstate = <<>>
  /\ printed = <<>> /\ mi = 0 /\ mj = 0 /\ times = <<>>
LengthIdle ==
  /\ absorbed = <<>> /\ overflow_checks = FALSE
InstancesIdle ==
  /\ insts = <<>>
LoopIdle ==
  /\ loop_alg = "none" /\ loop_pc = "idle" /\ loop_len = 0 /\ loop_pos = 0
  /\ loop_buffer_len = 0 /\ loop_calls = 0

----------------------------------------------------------------------------
(* The incremental hashers driven by a caller                              *)

MaxUpdates == 3
MaxLen256 == 130
MaxLen512 == 258

MaxLen(a) == IF a = "sha256" THEN MaxLen256 ELSE MaxLen512

\* The chunk lengths the caller uses: empty, short, around the padding
\* threshold, around one block, and two blocks.
ChunkSizes(a) ==
  {0, 1, 3, BlockSize(a) - LengthFieldSize(a) - 1, BlockSize(a) - LengthFieldSize(a),
   BlockSize(a) - 1, BlockSize(a), BlockSize(a) + 1, 2 * BlockSize(a)}

New(a) == IF a = "sha256" THEN Sha256_new ELSE Sha512_new
UpdateOf(a, self, data) ==
  IF a = "sha256" THEN Sha256_update(self, data) ELSE Sha512_update(self, data)
FinalizeStateOf(a, self) ==
  IF a = "sha256" THEN Sha256FinalizeState(self) ELSE Sha512FinalizeState(self)
FinalizeOf(a, self) ==
  IF a = "sha256" THEN Sha256_finalize(self) ELSE Sha512_finalize(self)

HasherInit ==
  /\ alg \in Algs
  /\ hasher = New(alg)
  /\ pc = "open"
  /\ fed = <<>>
  /\ updates = 0
  /\ pre = New(alg)
  /\ digest = <<>>

Init == HasherInit /\ CompressIdle /\ MainIdle /\ LengthIdle /\ InstancesIdle /\ LoopIdle

\* An index or a range lo..hi used on an array or slice of the given size
\* is in range: otherwise the access panics.
InRange(acc) == 0 <= acc.lo /\ acc.lo <= acc.hi /\ acc.hi <= acc.size

\* The ranges update(data) takes of self.buffer and of data, B the block
\* size, for a hasher with the given buffer_len and n = data.len(): the copy
\* of the top-up, the blocks of the loop, the copy of the remainder.
UpdateAccesses(B, buffer_len, n) ==
  LET to_copy == IF buffer_len > 0 THEN Min(B - buffer_len, n) ELSE 0
      loops == IF n >= to_copy THEN (n - to_copy) \div B ELSE 0
      pos == to_copy + B * loops
  IN  (IF buffer_len > 0
       THEN {[size |-> B, lo |-> buffer_len, hi |-> buffer_len + to_copy],
             [size |-> n, lo |-> 0, hi |-> to_copy]}
       ELSE {})
      \cup {[size |-> n, lo |-> to_copy + B * k, hi |-> to_copy + B * k + B] :
              k \in 0..(loops - 1)}
      \cup (IF pos < n
            THEN {[size |-> B, lo |-> 0, hi |-> n - pos],
                  [size |-> n, lo |-> pos, hi |-> n]}
            ELSE {})

\* The indices and ranges finalize takes of self.buffer and of result, B the
\* block size, L the size of the length field, W the bytes of a state word:
\* the 0x80 byte, the zero bytes of the two loops, the length field, the
\* state words written to result.
FinalizeAccesses(B, L, W, buffer_len) ==
  LET marked == buffer_len + 1
      second == IF marked > B - L THEN 0 ELSE marked
  IN  {[size |-> B, lo |-> buffer_len, hi |-> buffer_len + 1]}
      \cup (IF marked > B - L
            THEN {[size |-> B, lo |-> i, hi |-> i + 1] : i \in marked..(B - 1)}
            ELSE {})
      \cup {[size |-> B, lo |-> i, hi |-> i + 1] : i \in second..(B - L - 1)}
      \cup {[size |-> B, lo |-> B - L, hi |-> B]}
      \cup {[size |-> 8 * W, lo |-> i * W, hi |-> (i + 1) * W] : i \in 0..7}

\* No access of hasher.update on n bytes / of hasher.finalize() panics.
UpdateInRange(a, self, n) ==
  \A acc \in UpdateAccesses(BlockSize(a), self.buffer_len, n) : InRange(acc)
FinalizeInRange(a, self) ==
  \A acc \in FinalizeAccesses(BlockSize(a), LengthFieldSize(a), BlockSize(a) \div 16,
                               self.buffer_len) : InRange(acc)

\* hasher.update(data) with the next n bytes of the message; an access out
\* of range ends the call with a panic.
Update(n) ==
  /\ pc = "open"
  /\ updates < MaxUpdates
  /\ Len(fed) + n <= MaxLen(alg)
  /\ IF UpdateInRange(alg, hasher, n)
     THEN /\ hasher' = UpdateOf(alg, hasher, StreamSlice(alg, Len(fed), n))
          /\ fed' = fed \o StreamSlice(alg, Len(fed), n)
          /\ updates' = updates + 1
          /\ pc' = pc
     ELSE /\ pc' = "panicked"
          /\ UNCHANGED <<hasher, fed, updates>>
  /\ UNCHANGED <<alg, pre, digest, cvars, mvars, lvars, ivars, loopvars>>

\* Finalize as  finalize(&mut self)  would be: the hasher stays usable.
FinalizeBorrowing ==
  /\ pc = "open"
  /\ pre' = hasher
  /\ hasher' = FinalizeStateOf(alg, hasher)
  /\ digest' = SerializeState(hasher'.state)
  /\ UNCHANGED <<alg, pc, fed, updates, cvars, mvars, lvars, ivars, loopvars>>

\* hasher.finalize(): finalize(mut self) takes the hasher by value, and
\* Sha256 / Sha512 are neither Copy nor Clone, so no call can follow it; an
\* access out of range ends the call with a panic.
Finalize ==
  /\ pc = "open"
  /\ pre' = hasher
  /\ IF FinalizeInRange(alg, hasher)
     THEN /\ hasher' = FinalizeStateOf(alg, hasher)
          /\ digest' = SerializeState(hasher'.state)
          /\ pc' = "finalized"
     ELSE /\ pc' = "panicked"
          /\ UNCHANGED <<hasher, digest>>
  /\ UNCHANGED <<alg, fed, updates, cvars, mvars, lvars, ivars, loopvars>>

Next ==
  \/ \E n \in ChunkSizes(alg) : Update(n)
  \/ Finalize

Spec == Init /\ [][Next]_vars

----------------------------------------------------------------------------
(* A hasher with a long history: the length accounting near its limits     *)

MaxLengthUpdates == 2

\* 2^k as a number of 9 limbs (144 bits), wide enough for every count below.
PowerOfTwo(k) ==
  SubSeq([i \in 1..9 |-> IF i = 9 - (k \div 16) THEN Pow2Table[(k % 16) + 1] ELSE 0],
         1, 9)

RECURSIVE SubLimbs(_, _, _, _)
SubLimbs(x, y, i, borrow) ==
  IF i = 0 THEN <<>>
  ELSE LET d == x[i] - y[i] - borrow
       IN  SubLimbs(x, y, i - 1, IF d < 0 THEN 1 ELSE 0) \o <<(d + 65536) % 65536>>

\* x - y for x >= y, both of the same number of limbs
WideSub(x, y) == SubLimbs(x, y, Len(x), 0)

\* x <= y for two numbers of the same number of limbs
RECURSIVE WideLeq(_, _)
WideLeq(x, y) ==
  IF x = <<>> THEN TRUE
  ELSE IF Head(x) # Head(y) THEN Head(x) < Head(y)
       ELSE WideLeq(Tail(x), Tail(y))

\* The low L limbs of a wide number: the value as u64 (L = 4) or u128 (L = 8).
Truncate(x, L) == SubSeq(x, Len(x) - L + 1, Len(x))

\* The limbs of total_len: u64 for Sha256, u128 for Sha512.
TotalLenLimbs(a) == IF a = "sha256" THEN 4 ELSE 8

\* self.total_len += n overflows: the sum does not fit the width of total_len.
AddOverflows(x, y) == wrapping_add(<<0>> \o x, <<0>> \o y)[1] # 0

\* self.total_len * 8 overflows: the product does not fit the width of total_len.
MulOverflows(x, k) == wrapping_mul(<<0>> \o x, k)[1] # 0

\* The byte counts the hasher has absorbed before the calls followed here, all
\* whole blocks: two blocks short of 2^61 bytes (2^64 bits) and of 2^64 bytes
\* for Sha256, two blocks short of 2^125 bytes (2^128 bits) and of 2^128 bytes
\* for Sha512.
LongHistories(a) ==
  IF a = "sha256"
  THEN {WideSub(PowerOfTwo(61), NatToWord(2 * BlockSize(a), 9)),
        WideSub(PowerOfTwo(64), NatToWord(2 * BlockSize(a), 9))}
  ELSE {WideSub(PowerOfTwo(125), NatToWord(2 * BlockSize(a), 9)),
        WideSub(PowerOfTwo(128), NatToWord(2 * BlockSize(a), 9))}

\* The chunk lengths of the calls followed.
LengthChunkSizes(a) == {0, 1, BlockSize(a) - 1, BlockSize(a), 2 * BlockSize(a)}

\* The hasher after that history: total_len is the count, the buffer is
\* empty (the count is a whole number of blocks).  The chaining state the
\* earlier blocks left is not computed; the initial hash value stands for
\* it, and no statement about this specification reads the digest.
LengthInit ==
  /\ alg \in Algs
  /\ overflow_checks \in BOOLEAN
  /\ absorbed \in LongHistories(alg)
  /\ hasher = [New(alg) EXCEPT !.total_len = Truncate(absorbed, TotalLenLimbs(alg))]
  /\ pre = hasher
  /\ pc = "open"
  /\ fed = <<>>
  /\ updates = 0
  /\ digest = <<>>
  /\ CompressIdle /\ MainIdle /\ InstancesIdle /\ LoopIdle

\* hasher.update(data) with the next n bytes.  Where the build checks
\* arithmetic overflow,  self.total_len += data.len() as u64  panics when the
\* sum does not fit; elsewhere it wraps and update goes on.  absorbed counts
\* the bytes of every call, with the call that panicked.
LengthUpdate(n) ==
  /\ pc = "open"
  /\ updates < MaxLengthUpdates
  /\ absorbed' = wrapping_add(absorbed, NatToWord(n, 9))
  /\ IF overflow_checks
        /\ AddOverflows(hasher.total_len, NatToWord(n, TotalLenLimbs(alg)))
     THEN /\ pc' = "panicked"
          /\ UNCHANGED <<hasher, fed, updates>>
     ELSE /\ hasher' = UpdateOf(alg, hasher, StreamSlice(alg, Len(fed), n))
          /\ fed' = fed \o StreamSlice(alg, Len(fed), n)
          /\ updates' = updates + 1
          /\ pc' = pc
  /\ UNCHANGED <<alg, pre, digest, overflow_checks, cvars, mvars, ivars, loopvars>>

\* hasher.finalize().  Where the build checks arithmetic overflow,
\* let bit_len = self.total_len * 8  panics when the product does not fit;
\* elsewhere it wraps and finalize goes on.
LengthFinalize ==
  /\ pc = "open"
  /\ IF overflow_checks /\ MulOverflows(hasher.total_len, 8)
     THEN /\ pc' = "panicked"
          /\ UNCHANGED <<hasher, pre, digest>>
     ELSE /\ pre' = hasher
          /\ hasher' = FinalizeStateOf(alg, hasher)
          /\ digest' = SerializeState(hasher'.state)
          /\ pc' = "finalized"
  /\ UNCHANGED <<alg, fed, updates, absorbed, overflow_checks, cvars, mvars, ivars, loopvars>>

LengthNext ==
  \/ \E n \in LengthChunkSizes(alg) : LengthUpdate(n)
  \/ LengthFinalize

LengthSpec == LengthInit /\ [][LengthNext]_vars

----------------------------------------------------------------------------
(* Several hashers in the hands of one caller, used in any order           *)

MaxInstanceCalls == 2

\* The hashers the caller holds.
Instances == {1, 2}

\* The chunk lengths the caller uses on them.
InstanceChunkSizes(a) == {1, BlockSize(a) - 1}

\* The update calls made so far, on all the instances.
InstanceCalls == insts[1].updates + insts[2].updates

\* Sha256::new() / Sha512::new() for every instance: each owns its state,
\* its buffer and its counters; the source has no static and no other
\* shared item they could meet in.
InstancesInit ==
  /\ insts \in {SubSeq([i \in Instances |->
                         [alg |-> IF i = 1 THEN a1 ELSE a2,
                          hasher |-> New(IF i = 1 THEN a1 ELSE a2),
                          pc |-> "open", fed |-> <<>>, updates |-> 0,
                          digest |-> <<>>]], 1, 2) : a1 \in Algs, a2 \in Algs}
  /\ HasherIdle /\ CompressIdle /\ MainIdle /\ LengthIdle /\ LoopIdle

\* InstanceUpdate with one buffer for all hashers of an algorithm, as a
\* buffer held in a static would be.
InstanceUpdateSharedBuffer(i, n) ==
  /\ insts[i].pc = "open"
  /\ InstanceCalls < MaxInstanceCalls
  /\ \E h \in {UpdateOf(insts[i].alg, insts[i].hasher,
                        StreamSlice(insts[i].alg, Len(insts[i].fed), n))} :
       insts' = [j \in Instances |->
                   IF j = i
                   THEN [insts[i] EXCEPT
                           !.hasher = h,
                           !.fed = @ \o StreamSlice(insts[i].alg, Len(insts[i].fed), n),
                           !.updates = @ + 1]
                   ELSE IF insts[j].alg = insts[i].alg
                        THEN [insts[j] EXCEPT !.hasher.buffer = h.buffer,
                                              !.hasher.buffer_len = h.buffer_len]
                        ELSE insts[j]]
  /\ UNCHANGED <<hvars, cvars, mvars, lvars, loopvars>>

\* insts[i].update(data) with the next n bytes of the message of instance i
InstanceUpdate(i, n) ==
  /\ insts[i].pc = "open"
  /\ InstanceCalls < MaxInstanceCalls
  /\ insts' = [insts EXCEPT
                 ![i].hasher = UpdateOf(insts[i].alg, @,
                                        StreamSlice(insts[i].alg, Len(insts[i].fed), n)),
                 ![i].fed = @ \o StreamSlice(insts[i].alg, Len(insts[i].fed), n),
                 ![i].updates = @ + 1]
  /\ UNCHANGED <<hvars, cvars, mvars, lvars, loopvars>>

\* insts[i].finalize()
InstanceFinalize(i) ==
  /\ insts[i].pc = "open"
  /\ insts' = [insts EXCEPT
                 ![i].digest = FinalizeOf(insts[i].alg, insts[i].hasher),
                 ![i].pc = "finalized"]
  /\ UNCHANGED <<hvars, cvars, mvars, lvars, loopvars>>

InstancesNext ==
  \/ \E i \in Instances : \E n \in InstanceChunkSizes(insts[i].alg) : InstanceUpdate(i, n)
  \/ \E i \in Instances : InstanceFinalize(i)

InstancesSpec == InstancesInit /\ [][InstancesNext]_vars

----------------------------------------------------------------------------
(* The loops of update and finalize, one iteration per step                *)

MaxLoopCalls == 2

\* The chunk lengths: empty, short, up to the length field, around one
\* block, and long enough for the loop over full blocks to run three times.
LoopChunkSizes(a) ==
  {0, 1, BlockSize(a) - LengthFieldSize(a), BlockSize(a) - 1, BlockSize(a),
   2 * BlockSize(a) + 1, 3 * BlockSize(a)}

\* The positions of a call that is still running.
InCall == {"update_loop", "first_fill", "second_fill"}

LoopInit ==
  /\ loop_alg \in Algs
  /\ loop_pc = "ready"
  /\ loop_len = 0
  /\ loop_pos = 0
  /\ loop_buffer_len = 0
  /\ loop_calls = 0
  /\ HasherIdle /\ CompressIdle /\ MainIdle /\ LengthIdle /\ InstancesIdle

\* update(data) with data.len() = n, up to the loop: pos = 0, the top-up of
\* a non-empty buffer (pos = to_copy) and the flush of a full one.
LoopUpdateEnter(n) ==
  /\ loop_pc = "ready"
  /\ loop_calls < MaxLoopCalls
  /\ loop_calls' = loop_calls + 1
  /\ loop_len' = n
  /\ IF loop_buffer_len > 0
     THEN /\ loop_pos' = Min(BlockSize(loop_alg) - loop_buffer_len, n)
          /\ loop_buffer_len' =
               IF loop_buffer_len + loop_pos' = BlockSize(loop_alg)
               THEN 0 ELSE loop_buffer_len + loop_pos'
     ELSE /\ loop_pos' = 0
          /\ loop_buffer_len' = loop_buffer_len
  /\ loop_pc' = "update_loop"
  /\ UNCHANGED <<loop_alg, hvars, cvars, mvars, lvars, ivars>>

\* LoopUpdateBlock with a body that leaves pos as it is.
LoopUpdateBlockNoAdvance ==
  /\ loop_pc = "update_loop"
  /\ loop_pos + BlockSize(loop_alg) <= loop_len
  /\ loop_pos' = loop_pos
  /\ UNCHANGED <<loop_alg, loop_pc, loop_len, loop_buffer_len, loop_calls,
                 hvars, cvars, mvars, lvars, ivars>>

\* One iteration of  while pos + 64 <= data.len() { ...; pos += 64 }
LoopUpdateBlock ==
  /\ loop_pc = "update_loop"
  /\ loop_pos + BlockSize(loop_alg) <= loop_len
  /\ loop_pos' = loop_pos + BlockSize(loop_alg)
  /\ UNCHANGED <<loop_alg, loop_pc, loop_len, loop_buffer_len, loop_calls,
                 hvars, cvars, mvars, lvars, ivars>>

\* The loop condition fails: the remainder goes to the buffer and update
\* returns.
LoopUpdateReturn ==
  /\ loop_pc = "update_loop"
  /\ ~(loop_pos + BlockSize(loop_alg) <= loop_len)
  /\ loop_buffer_len' =
       IF loop_pos < loop_len THEN loop_len - loop_pos ELSE loop_buffer_len
  /\ loop_pc' = "ready"
  /\ UNCHANGED <<loop_alg, loop_len, loop_pos, loop_calls,
                 hvars, cvars, mvars, lvars, ivars>>

\* finalize up to its loops: buffer[buffer_len] = 0x80; buffer_len += 1; and
\* the test  buffer_len > 56.
LoopFinalizeEnter ==
  /\ loop_pc = "ready"
  /\ loop_buffer_len' = loop_buffer_len + 1
  /\ loop_pc' =
       IF loop_buffer_len' > BlockSize(loop_alg) - LengthFieldSize(loop_alg)
       THEN "first_fill" ELSE "second_fill"
  /\ UNCHANGED <<loop_alg, loop_len, loop_pos, loop_calls,
                 hvars, cvars, mvars, lvars, ivars>>

\* One iteration of  while buffer_len < 64 { buffer[buffer_len] = 0; buffer_len += 1 }
LoopFirstFill ==
  /\ loop_pc = "first_fill"
  /\ loop_buffer_len < BlockSize(loop_alg)
  /\ loop_buffer_len' = loop_buffer_len + 1
  /\ UNCHANGED <<loop_alg, loop_pc, loop_len, loop_pos, loop_calls,
                 hvars, cvars, mvars, lvars, ivars>>

\* The first loop ends: the transform, and buffer_len = 0.
LoopFirstFlush ==
  /\ loop_pc = "first_fill"
  /\ ~(loop_buffer_len < BlockSize(loop_alg))
  /\ loop_buffer_len' = 0
  /\ loop_pc' = "second_fill"
  /\ UNCHANGED <<loop_alg, loop_len, loop_pos, loop_calls,
                 hvars, cvars, mvars, lvars, ivars>>

\* One iteration of  while buffer_len < 56 { buffer[buffer_len] = 0; buffer_len += 1 }
LoopSecondFill ==
  /\ loop_pc = "second_fill"
  /\ loop_buffer_len < BlockSize(loop_alg) - LengthFieldSize(loop_alg)
  /\ loop_buffer_len' = loop_buffer_len + 1
  /\ UNCHANGED <<loop_alg, loop_pc, loop_len, loop_pos, loop_calls,
                 hvars, cvars, mvars, lvars, ivars>>

\* The second loop ends: the length field, the last transform, and finalize
\* returns the digest.
LoopFinalizeReturn ==
  /\ loop_pc = "second_fill"
  /\ ~(loop_buffer_len < BlockSize(loop_alg) - LengthFieldSize(loop_alg))
  /\ loop_pc' = "returned"
  /\ UNCHANGED <<loop_alg, loop_len, loop_pos, loop_buffer_len, loop_calls,
                 hvars, cvars, mvars, lvars, ivars>>

\* The steps of a call in progress.
LoopStep ==
  \/ LoopUpdateBlock
  \/ LoopUpdateReturn
  \/ LoopFirstFill
  \/ LoopFirstFlush
  \/ LoopSecondFill
  \/ LoopFinalizeReturn

LoopNext ==
  \/ \E n \in LoopChunkSizes(loop_alg) : LoopUpdateEnter(n)
  \/ LoopFinalizeEnter
  \/ LoopStep

\* A call that has been entered keeps executing: the thread that runs it is
\* not stopped for ever. The caller need not make a further call.
LoopSpec == LoopInit /\ [][LoopNext]_vars /\ WF_vars(LoopStep)

----------------------------------------------------------------------------
(* The generic and the hardware transform on the same state and blocks     *)

MaxBlocks == 2
MaxOffset == 3

\* The block both AArch64 programs compress: "abc", 0x80, zeros, bit length 0x18.
AbcBlock(a) == <<97, 98, 99, 128>> \o Zeros(BlockSize(a) - 5) \o <<24>>

\* n consecutive blocks of the message from byte offset o.
StreamBlocks(a, o, n) ==
  SubSeq([k \in 1..n |-> StreamSlice(a, o + (k - 1) * BlockSize(a), BlockSize(a))],
         1, n)

\* The chaining states tried: the initial hash value, all bits clear, all
\* bits set.
CompressStates(a) ==
  IF a = "sha256"
  THEN {Sha256State_new,
        SubSeq([i \in 1..8 |-> <<0, 0>>], 1, 8),
        SubSeq([i \in 1..8 |-> <<65535, 65535>>], 1, 8)}
  ELSE {Sha512State_new,
        SubSeq([i \in 1..8 |-> <<0, 0, 0, 0>>], 1, 8),
        SubSeq([i \in 1..8 |-> <<65535, 65535, 65535, 65535>>], 1, 8)}

\* The slices of blocks tried, the empty slice among them.
CompressInputs(a) ==
  {<<>>, <<AbcBlock(a)>>}
  \cup {StreamBlocks(a, o, n) : o \in 0..MaxOffset, n \in 1..MaxBlocks}

\* The generic transform applied to each block in turn, as the update loops do.
RECURSIVE GenericBlocks(_, _, _)
GenericBlocks(a, state, blocks) ==
  IF blocks = <<>> \/ Len(state) # 8 THEN state
  ELSE GenericBlocks(a,
         IF a = "sha256" THEN sha256_transform_generic(state, Head(blocks))
                         ELSE sha512_transform_generic(state, Head(blocks)),
         Tail(blocks))

\* compress256 / sha512_compress_hw on a state array and a slice of blocks.
HardwareBlocks(a, state, blocks) ==
  IF a = "sha256" THEN compress256(state, blocks)
                  ELSE sha512_compress_hw(state, blocks)

CompressInit ==
  /\ ckind \in Algs
  /\ cstate \in CompressStates(ckind)
  /\ cblocks \in CompressInputs(ckind)
  /\ cgeneric = <<>>
  /\ chardware = <<>>
  /\ HasherIdle /\ MainIdle /\ LengthIdle /\ InstancesIdle /\ LoopIdle

\* RunGeneric with a transform that clears the block it has read.
RunGenericClobbering ==
  /\ cgeneric = <<>>
  /\ cgeneric' = GenericBlocks(ckind, cstate, cblocks)
  /\ cblocks' = SubSeq([k \in 1..Len(cblocks) |-> Zeros(BlockSize(ckind))],
                       1, Len(cblocks))
  /\ UNCHANGED <<ckind, cstate, chardware, hvars, mvars, lvars, ivars, loopvars>>

\* sha256_transform_generic / sha512_transform_generic on each block
RunGeneric ==
  /\ cgeneric = <<>>
  /\ cgeneric' = GenericBlocks(ckind, cstate, cblocks)
  /\ UNCHANGED <<ckind, cstate, cblocks, chardware, hvars, mvars, lvars, ivars, loopvars>>

\* compress256(&mut state, &blocks) / sha512_compress_hw(&mut state, &blocks)
RunHardware ==
  /\ chardware = <<>>
  /\ chardware' = HardwareBlocks(ckind, cstate, cblocks)
  /\ UNCHANGED <<ckind, cstate, cblocks, cgeneric, hvars, mvars, lvars, ivars, loopvars>>

CompressNext == RunGeneric \/ RunHardware

CompressSpec == CompressInit /\ [][CompressNext]_vars

----------------------------------------------------------------------------
(* The main programs of sha256_aarch64 and sha512_aarch64                  *)

\* The trip counts of the measuring loops (ITERATIONS = 10_000_000,
\* ITERATIONS_1 = 16384, ITERATIONS_2 = 1024 in the programs) are cut to these.
MaxIterations == 4
MaxOuter == 2
MaxInner == 2

Programs == {"sha256_aarch64", "sha512_aarch64"}

\* initial_state of main
MainInitialState(p) == IF p = "sha256_aarch64" THEN Sha256State_new ELSE Sha512State_new

\* blocks / [block] of main: "abc" padded to one block
MainBlocks(p) == IF p = "sha256_aarch64" THEN <<AbcBlock("sha256")>> ELSE <<AbcBlock("sha512")>>

\* The state array a call of compress256 / sha512_compress_hw leaves.
MainCompress(p, state) ==
  IF p = "sha256_aarch64" THEN compress256(state, MainBlocks(p))
                          ELSE sha512_compress_hw(state, MainBlocks(p))

\* What a call of the hardware transform can do. Where the feature query
\* reports the extension, its instructions execute. Where it reports the
\* extension absent, the instructions are undefined on a processor without
\* them, and the process is killed with an illegal-instruction trap; on a
\* processor that has them although the query does not report them, they
\* execute.
CallOutcomes(d) == IF d THEN {"executed"} ELSE {"executed", "killed"}

\* The elapsed times a measurement can read: zero or more.
Readings == {0, 1}

\* times.sort_by(..): the readings in ascending order.
RECURSIVE SortedReadings(_)
SortedReadings(ts) ==
  IF ts = <<>> THEN <<>>
  ELSE IF Head(ts) = 0 THEN <<0>> \o SortedReadings(Tail(ts))
       ELSE SortedReadings(Tail(ts)) \o <<1>>

MainInit ==
  /\ prog \in Programs
  /\ detected \in BOOLEAN
  /\ mpc = "start"
  /\ queries = 0
  /\ reported = FALSE
  /\ hw_calls = 0
  /\ hw_issued = 0
  /\ mstate = MainInitialState(prog)
  /\ printed = <<>>
  /\ mi = 0
  /\ mj = 0
  /\ times = <<>>
  /\ HasherIdle /\ CompressIdle /\ LengthIdle /\ InstancesIdle /\ LoopIdle

\* sha256_aarch64 main up to the loop: the first compress256 call on
\* initial_state and the print of the state it left.
Sha256MainFirstCall ==
  /\ prog = "sha256_aarch64"
  /\ mpc = "start"
  /\ hw_calls' = hw_calls + 1
  /\ \E outcome \in CallOutcomes(detected) :
       IF outcome = "executed"
       THEN /\ hw_issued' = hw_issued + 1
            /\ printed' = MainCompress(prog, MainInitialState(prog))
            /\ mpc' = "measure"
       ELSE /\ mpc' = "killed"
            /\ UNCHANGED <<hw_issued, printed>>
  /\ UNCHANGED <<prog, detected, queries, reported, mstate, mi, mj, times>>
  /\ UNCHANGED <<hvars, cvars, lvars, ivars, loopvars>>

\* One iteration of  for _ in 0..ITERATIONS  of sha256_aarch64: a call of
\* compress256 on a copy of initial_state, and its time pushed on times.
Sha256MainIteration ==
  /\ prog = "sha256_aarch64"
  /\ mpc = "measure"
  /\ mi < MaxIterations
  /\ hw_calls' = hw_calls + 1
  /\ \E outcome \in CallOutcomes(detected), time_ns \in Readings :
       IF outcome = "executed"
       THEN /\ hw_issued' = hw_issued + 1
            /\ mstate' = MainCompress(prog, MainInitialState(prog))
            /\ times' = Append(times, time_ns)
            /\ mi' = mi + 1
            /\ mpc' = "measure"
       ELSE /\ mpc' = "killed"
            /\ UNCHANGED <<hw_issued, mstate, times, mi>>
  /\ UNCHANGED <<prog, detected, queries, reported, printed, mj>>
  /\ UNCHANGED <<hvars, cvars, lvars, ivars, loopvars>>

\* sha256_aarch64 main after the loop: the statistics over the sorted times.
Sha256MainStatistics ==
  /\ prog = "sha256_aarch64"
  /\ mpc = "measure"
  /\ mi = MaxIterations
  /\ times' = SortedReadings(times)
  /\ mpc' = "exit"
  /\ UNCHANGED <<prog, detected, queries, reported, hw_calls, hw_issued, mstate,
                 printed, mi, mj>>
  /\ UNCHANGED <<hvars, cvars, lvars, ivars, loopvars>>

\* Sha512MainDetect without the return: main goes on after the message.
Sha512MainDetectNoReturn ==
  /\ prog = "sha512_aarch64"
  /\ mpc = "start"
  /\ queries' = queries + 1
  /\ reported' = ~detected
  /\ mpc' = "first"
  /\ UNCHANGED <<prog, detected, hw_calls, hw_issued, mstate, printed, mi, mj, times>>
  /\ UNCHANGED <<hvars, cvars, lvars, ivars, loopvars>>

\* sha512_aarch64 main: if !is_aarch64_feature_detected!("sha3") { println!; return; }
Sha512MainDetect ==
  /\ prog = "sha512_aarch64"
  /\ mpc = "start"
  /\ queries' = queries + 1
  /\ reported' = ~detected
  /\ mpc' = IF detected THEN "first" ELSE "exit"
  /\ UNCHANGED <<prog, detected, hw_calls, hw_issued, mstate, printed, mi, mj, times>>
  /\ UNCHANGED <<hvars, cvars, lvars, ivars, loopvars>>

\* sha512_aarch64 main: the first sha512_compress_hw call on a copy of
\* initial_state, the print of the state it left, and warmup_state = initial_state.
Sha512MainFirstCall ==
  /\ prog = "sha512_aarch64"
  /\ mpc = "first"
  /\ hw_calls' = hw_calls + 1
  /\ \E outcome \in CallOutcomes(detected) :
       IF outcome = "executed"
       THEN /\ hw_issued' = hw_issued + 1
            /\ printed' = MainCompress(prog, MainInitialState(prog))
            /\ mpc' = "warmup"
       ELSE /\ mpc' = "killed"
            /\ UNCHANGED <<hw_issued, printed>>
  /\ UNCHANGED <<prog, detected, queries, reported, mstate, mi, mj, times>>
  /\ UNCHANGED <<hvars, cvars, lvars, ivars, loopvars>>

\* One iteration of the warm-up loop: sha512_compress_hw on warmup_state.
Sha512MainWarmup ==
  /\ prog = "sha512_aarch64"
  /\ mpc = "warmup"
  /\ mi < MaxIterations
  /\ hw_calls' = hw_calls + 1
  /\ \E outcome \in CallOutcomes(detected) :
       IF outcome = "executed"
       THEN /\ hw_issued' = hw_issued + 1
            /\ mstate' = MainCompress(prog, mstate)
            /\ mi' = mi + 1
            /\ mpc' = "warmup"
       ELSE /\ mpc' = "killed"
            /\ UNCHANGED <<hw_issued, mstate, mi>>
  /\ UNCHANGED <<prog, detected, queries, reported, printed, mj, times>>
  /\ UNCHANGED <<hvars, cvars, lvars, ivars, loopvars>>

\* The end of the warm-up loop and the entry of the measuring loops:
\* i = 0, state = initial_state, j = 0.
Sha512MainMeasure ==
  /\ prog = "sha512_aarch64"
  /\ mpc = "warmup"
  /\ mi = MaxIterations
  /\ mstate' = MainInitialState(prog)
  /\ mi' = 0
  /\ mj' = 0
  /\ mpc' = "measure"
  /\ UNCHANGED <<prog, detected, queries, reported, hw_calls, hw_issued, printed, times>>
  /\ UNCHANGED <<hvars, cvars, lvars, ivars, loopvars>>

\* One iteration of  for j in 0..ITERATIONS_2: sha512_compress_hw on state.
Sha512MainInner ==
  /\ prog = "sha512_aarch64"
  /\ mpc = "measure"
  /\ mi < MaxOuter
  /\ mj < MaxInner
  /\ hw_calls' = hw_calls + 1
  /\ \E outcome \in CallOutcomes(detected) :
       IF outcome = "executed"
       THEN /\ hw_issued' = hw_issued + 1
            /\ mstate' = MainCompress(prog, mstate)
            /\ mj' = mj + 1
            /\ mpc' = "measure"
       ELSE /\ mpc' = "killed"
            /\ UNCHANGED <<hw_issued, mstate, mj>>
  /\ UNCHANGED <<prog, detected, queries, reported, printed, mi, times>>
  /\ UNCHANGED <<hvars, cvars, lvars, ivars, loopvars>>

\* The end of an iteration of  for i in 0..ITERATIONS_1: times.push(elapsed),
\* and the next iteration's state = initial_state.
Sha512MainOuter ==
  /\ prog = "sha512_aarch64"
  /\ mpc = "measure"
  /\ mi < MaxOuter
  /\ mj = MaxInner
  /\ \E elapsed \in Readings : times' = Append(times, elapsed)
  /\ mi' = mi + 1
  /\ mj' = 0
  /\ mstate' = MainInitialState(prog)
  /\ UNCHANGED <<prog, detected, mpc, queries, reported, hw_calls, hw_issued, printed>>
  /\ UNCHANGED <<hvars, cvars, lvars, ivars, loopvars>>

\* sha512_aarch64 main after the loops: the statistics.
Sha512MainStatistics ==
  /\ prog = "sha512_aarch64"
  /\ mpc = "measure"
  /\ mi = MaxOuter
  /\ mpc' = "exit"
  /\ UNCHANGED <<prog, detected, queries, reported, hw_calls, hw_issued, mstate,
                 printed, mi, mj, times>>
  /\ UNCHANGED <<hvars, cvars, lvars, ivars, loopvars>>

MainNext ==
  \/ Sha256MainFirstCall
  \/ Sha256MainIteration
  \/ Sha256MainStatistics
  \/ Sha512MainDetect
  \/ Sha512MainFirstCall
  \/ Sha512MainWarmup
  \/ Sha512MainMeasure
  \/ Sha512MainInner
  \/ Sha512MainOuter
  \/ Sha512MainStatistics

MainSpec == MainInit /\ [][MainNext]_vars

\* The FIPS 180-4 SHA-256 digest of the first n bytes of the SHA-256 message,
\* n = 0 .. 132, at index n + 1, as sixteen 16-bit halves of the digest.
Sha256Standard ==
  <<
    <<58288, 50242, 39164, 7188, 39675, 62664, 39279, 47396, 10158, 16868,
      25755, 37708, 42133, 39195, 30802, 47189>>,
    <<51863, 33042, 51739, 48586, 64194, 12723, 39459, 56397, 42886, 61432,
      5244, 20082, 47488, 30597, 45038, 18619>>,
    <<64398, 8444, 11852, 16164, 35936, 50075, 54866, 62401, 13426, 39099,
      38779, 35661, 22787, 47184, 21858, 1539>>,
    <<47736, 5823, 36609, 53226, 16705, 16606, 23982, 8739, 45059, 24995,
      38423, 31388, 46096, 65377, 61952, 5549>>,
    <<35028, 9839, 54502, 13197, 5048, 17916, 62089, 22429, 8348, 35192,
      9145, 8573, 41953, 24979, 28419, 5513>>,
    <<32257, 5960, 51685, 15579, 57298, 35089, 30722, 14462, 41189, 59723,
      33209, 286, 57249, 56547, 14866, 6181>>,
    <<43869, 64798, 30761, 61625, 34632, 2551, 21088, 49757, 4484, 50424,
      15641, 49058, 21445, 16901, 26838, 11490>>,
    <<63782, 27457, 50305, 23419, 31897, 56677, 10443, 62339, 8907, 23456,
      6978, 11739, 57937, 4412, 42264, 38358>>,
    <<51054, 43832, 7038, 59539, 57525, 22755, 34165, 54794, 44096, 58550,
      31650, 31704, 37233, 7265, 35940, 6701>>,
    <<9694, 26400, 39063, 47753, 53547, 16147, 55505, 48748, 21212, 23461,
      39293, 6267, 54587, 20018, 31566, 31461>>,
    <<37350, 51787, 52176, 35977, 3357, 49302, 44026, 7971, 52510, 22724,
      1949, 6514, 19094, 2625, 25289, 41161>>,
    <<44511, 24861, 10963, 41084, 61514, 37574, 19463, 15514, 12397, 35034,
      20572, 33238, 56349, 25430, 36964, 42200>>,
    <<54966, 49204, 13317, 40707, 53443, 9408, 55692, 172, 21509, 29260,
      21192, 61339, 17970, 56814, 43132, 22787>>,
    <<63545, 3218, 21202, 40732, 26796, 16913, 61976, 2951, 42895, 41330,
      2958, 11714, 21870, 31604, 61461, 14282>>,
    <<57021, 44046, 12257, 64743, 4395, 40781, 31013, 38743, 19036, 24498,
      21870, 21679, 12572, 6391, 6897, 43009>>,
    <<19516, 64451, 7190, 4075, 1160, 55813, 2211, 39623, 19057, 26352,
      59922, 176, 19433, 56120, 15725, 38795>>,
    <<15860, 23828, 38341, 53824, 1292, 61996, 44417, 9120, 42395, 46614,
      52611, 24479, 15196, 58979, 13411, 44584>>,
    <<34082, 10960, 34689, 48234, 61997, 14048, 18911, 63276, 43473, 25728,
      38239, 60111, 49665, 54416, 35334, 15101>>,
    <<65477, 6056, 57954, 63835, 44393, 14122, 43981, 31036, 21206, 2607,
      57024, 1269, 60375, 3887, 33084, 46065>>,
    <<11388, 8988, 41648, 61129, 28310, 21448, 3171, 6289, 62645, 2747,
      23365, 7542, 20749, 4028, 42566, 64101>>,
    <<17875, 61955, 32473, 1648, 51504, 47875, 18515, 15271, 24268, 32137,
      56352, 42634, 60831, 17044, 40329, 43099>>,
    <<40408, 20196, 57432, 48712, 18594, 56348, 14653, 3178, 8458, 43950,
      32811, 30662, 59353, 28384, 456, 31231>>,
    <<29708, 49102, 53041, 687, 38286, 57502, 2804, 30283, 36121, 29320,
      23435, 41251, 41952, 25246, 40315, 63901>>,
    <<49670, 45766, 62715, 56717, 47322, 26650, 37499, 62193, 8674, 46439,
      7157, 24290, 40266, 37312, 23306, 59546>>,
    <<20637, 31015, 24786, 40136, 10710, 13063, 30874, 1412, 23325, 48037,
      24450, 35541, 27137, 1068, 3709, 26078>>,
    <<61455, 45225, 27059, 50191, 62531, 708, 47726, 4279, 46329, 33445,
      39285, 15436, 46121, 32796, 65111, 45495>>,
    <<9561, 56933, 58121, 46654, 61343, 8931, 6714, 41337, 54756, 12977,
      58466, 51345, 23802, 61648, 10962, 54953>>,
    <<51872, 47785, 21882, 42563, 18511, 58374, 47060, 32559, 6483, 18927,
      32733, 35868, 23594, 50925, 18681, 28138>>,
    <<30640, 27108, 14945, 42703, 53446, 48808, 6115, 40073, 33061, 15902,
      54252, 37244, 26196, 39322, 4852, 20392>>,
    <<20005, 3153, 11813, 59514, 43746, 49832, 3891, 51213, 45112, 44323,
      42348, 45387, 1855, 30510, 40975, 52079>>,
    <<54648, 48110, 3809, 33705, 16752, 54527, 14732, 45725, 1543, 39525,
      4116, 119, 4657, 62459, 45335, 51609>>,
    <<30242, 27039, 55326, 43369, 18412, 42637, 15127, 32146, 39448, 23094,
      22568, 53891, 53683, 55162, 39616, 44509>>,
    <<45212, 48422, 15108, 16128, 3163, 61386, 41995, 49909, 23111, 34272,
      9445, 57015, 18869, 24673, 60155, 26089>>,
    <<11618, 58952, 52246, 8319, 3721, 54545, 26343, 42841, 34789, 23892,
      41450, 49732, 24362, 45420, 8893, 53085>>,
    <<46527, 41105, 32054, 27381, 23159, 29834, 14397, 37497, 31339, 1644,
      62304, 28069, 29386, 16477, 47604, 39813>>,
    <<13112, 17594, 34201, 50103, 40053, 28392, 64463, 17837, 31489, 47898,
      10025, 52560, 901, 34141, 24313, 38560>>,
    <<21656, 8885, 27153, 31636, 50078, 54223, 64078, 62625, 52231, 57749,
      30709, 8286, 60979, 41829, 34538, 28711>>,
    <<45760, 15751, 14978, 20794, 23955, 45686, 23246, 39427, 46765, 33602,
      22032, 11874, 61631, 10731, 59977, 2691>>,
    <<36195, 31575, 40012, 22072, 41593, 65520, 19221, 36715, 11405, 17270,
      56169, 38810, 35392, 44570, 25230, 29138>>,
    <<59886, 31748, 46127, 47322, 59397, 64976, 35060, 12121, 59218, 40087,
      5452, 44909, 17583, 17429, 6358, 22527>>,
    <<23138, 57541, 23349, 62418, 11724, 56842, 63540, 23635, 32507, 33869,
      18510, 56339, 51458, 59368, 36302, 49283>>,
    <<43219, 33885, 6203, 4574, 56318, 46853, 28695, 10528, 15049, 29415,
      18351, 946, 21136, 45576, 3731, 28973>>,
    <<33445, 19313, 15751, 60869, 61205, 38233, 41558, 3595, 25807, 23004,
      19527, 31578, 28140, 20474, 63584, 6940>>,
    <<25080, 65100, 19676, 35646, 4199, 14643, 64720, 50609, 63156, 27955,
      37461, 3650, 45669, 56047, 51132, 3377>>,
    <<22697, 26930, 12204, 41728, 10338, 11360, 42567, 65136, 13386, 28615,
      22792, 1221, 65447, 39775, 47402, 2756>>,
    <<8801, 64006, 49990, 60225, 30337, 44551, 19811, 24017, 56974, 44615,
      41790, 56794, 15859, 63030, 42075, 27535>>,
    <<23677, 18714, 14227, 17512, 52799, 15237, 34435, 15306, 51188, 2038,
      56246, 39692, 16293, 20953, 1840, 41965>>,
    <<20877, 18896, 54648, 4658, 19162, 57002, 53691, 38959, 61908, 61839,
      7112, 32305, 55526, 10555, 22748, 31169>>,
    <<65285, 43891, 23541, 8202, 20566, 24927, 49195, 45463, 49067, 52362,
      48140, 39795, 16204, 20924, 13444, 36940>>,
    <<49882, 13987, 5858, 15034, 30525, 58081, 55655, 42262, 61527, 19897,
      58446, 65382, 8587, 60652, 19392, 47268>>,
    <<49444, 54920, 28290, 25394, 46243, 50148, 55621, 35705, 63792, 22056,
      3537, 4137, 50262, 9987, 7868, 15827>>,
    <<54165, 51196, 13719, 45036, 31754, 30232, 45176, 55980, 510, 25096,
      7553, 23931, 44550, 21529, 29960, 47116>>,
    <<44291, 65204, 36529, 43801, 11332, 21741, 58109, 58225, 6080, 8892,
      26484, 56037, 61856, 4045, 44251, 15389>>,
    <<49193, 52586, 62668, 46875, 41039, 13617, 36334, 29739, 50372, 48930,
      44856, 21515, 184, 50147, 35678, 850>>,
    <<29056, 28426, 61837, 48105, 1528, 64682, 22379, 36456, 30809, 5692,
      63115, 14524, 9971, 11857, 8274, 11457>>,
    <<43573, 15872, 40667, 44735, 50916, 38088, 55367, 26984, 38603, 35641,
      36353, 29604, 46529, 46646, 10541, 34759>>,
    <<9357, 27233, 53766, 14520, 58816, 9875, 3134, 24633, 41788, 58457,
      25855, 8551, 63212, 60884, 6619, 1729>>,
    <<11340, 50375, 58273, 40716, 22565, 35669, 7482, 19193, 33927, 15541,
      23749, 15251, 56719, 44275, 49594, 37722>>,
    <<20208, 10670, 43046, 8146, 52650, 57936, 56986, 34109, 20995, 38981,
      32139, 58345, 41994, 60338, 28019, 11406>>,
    <<2728, 36467, 58375, 39157, 65233, 56114, 63524, 12816, 39351, 21527,
      12357, 14802, 41956, 48543, 49265, 48403>>,
    <<33815, 9763, 18692, 15109, 60031, 27747, 46122, 62480, 5255, 35503,
      55983, 39083, 56160, 44117, 17927, 25109>>,
    <<3512, 64206, 35778, 41005, 40500, 28854, 29307, 18774, 41424, 40450,
      59980, 25587, 15461, 41152, 10309, 57346>>,
    <<16409, 22780, 18433, 30492, 21741, 59927, 25456, 29766, 33549, 19318,
      10964, 12918, 38523, 52672, 5188, 2311>>,
    <<56571, 58331, 63911, 46961, 46026, 10304, 21722, 58872, 14036, 6568,
      16805, 54366, 44628, 64065, 15816, 5048>>,
    <<23127, 18629, 49267, 16806, 51378, 49259, 42547, 9341, 49227, 28973,
      10493, 10577, 52369, 5641, 5520, 11623>>,
    <<6460, 38781, 29247, 30429, 26823, 64969, 3197, 44865, 61882, 56320,
      9809, 6742, 37814, 54341, 47568, 36517>>,
    <<30944, 46854, 64582, 61612, 43835, 11949, 23393, 1661, 5902, 48709,
      5259, 49176, 9763, 24699, 33543, 29005>>,
    <<24313, 27251, 49471, 22992, 31807, 56990, 7819, 13720, 15506, 31741,
      42832, 21890, 49683, 3613, 60324, 60920>>,
    <<39592, 39822, 29012, 52725, 15375, 37572, 9792, 35303, 8947, 16556,
      41682, 18305, 4885, 19527, 54847, 17763>>,
    <<39494, 34972, 20846, 7008, 5026, 64839, 19663, 10376, 45448, 2997,
      30074, 18202, 30200, 14004, 30538, 26023>>,
    <<41320, 49847, 44768, 64473, 30627, 29717, 11139, 10409, 53000, 24071,
      62646, 34479, 35171, 12615, 44664, 46927>>,
    <<15140, 912, 38222, 24417, 53136, 41839, 28496, 19227, 21995, 54929,
      11466, 55843, 15953, 61166, 23740, 32257>>,
    <<56604, 36340, 2658, 36538, 42915, 48522, 26935, 15673, 5369, 65111,
      498, 31390, 23983, 65400, 58670, 13000>>,
    <<2200, 24882, 49300, 44749, 35284, 37927, 23381, 31098, 27160, 48696,
      726, 34891, 24339, 914, 54247, 16468>>,
    <<62729, 64848, 64702, 6340, 36009, 29693, 40842, 58526, 42512, 59514,
      57669, 54298, 55089, 31619, 3806, 42042>>,
    <<44575, 14550, 64469, 63906, 44039, 40854, 65261, 56274, 3892, 33306,
      46091, 61745, 30219, 60801, 18725, 40598>>,
    <<33519, 24327, 29997, 26194, 59728, 53414, 59883, 11751, 65402, 1467,
      53882, 36168, 17292, 6400, 43145, 14314>>,
    <<37931, 61466, 61373, 32634, 25046, 34813, 54496, 21339, 10568, 39166,
      21665, 2283, 51478, 15136, 20754, 56627>>,
    <<45290, 14189, 27811, 10315, 16386, 47340, 31327, 54617, 17606, 41187,
      54125, 37518, 18124, 30795, 10333, 10203>>,
    <<26521, 6173, 34398, 43224, 23945, 42755, 59792, 26688, 22175, 26003,
      5127, 51822, 30654, 62755, 12016, 23752>>,
    <<64794, 36776, 13826, 8974, 17654, 23027, 44626, 46651, 41188, 426,
      14796, 3791, 26454, 388, 60623, 10322>>,
    <<23675, 49753, 31117, 7366, 31150, 3136, 4213, 6597, 2305, 48573, 6511,
      14842, 45854, 9804, 57593, 34>>,
    <<61595, 15501, 48918, 32118, 58974, 48253, 54099, 48742, 53083, 48901,
      56348, 12111, 32601, 11556, 13027, 6995>>,
    <<49757, 27029, 31162, 17781, 42688, 60931, 28758, 37944, 9185, 14386,
      35917, 32788, 8810, 57437, 28608, 51603>>,
    <<61497, 7214, 61168, 24570, 34375, 64028, 51290, 42173, 2953, 62601,
      7668, 47109, 38126, 48977, 26802, 57982>>,
    <<30274, 32438, 45878, 20944, 24095, 38430, 49748, 8864, 33537, 22653,
      7266, 16714, 27613, 45303, 16389, 7077>>,
    <<27449, 40525, 31071, 20820, 34838, 48578, 26222, 62345, 4225, 29896,
      55319, 51442, 51257, 30153, 54077, 7639>>,
    <<33182, 48584, 40811, 41613, 59346, 47470, 24541, 17282, 35997, 25181,
      26413, 3982, 42226, 16082, 32050, 54069>>,
    <<12465, 55289, 43023, 29151, 63572, 36151, 26213, 7052, 48813, 31677,
      48732, 38650, 11868, 64433, 30136, 38391>>,
    <<4707, 40699, 37042, 16028, 33019, 43936, 46907, 15711, 57124, 8812,
      63734, 39573, 12758, 49174, 46698, 36886>>,
    <<61738, 9062, 32784, 46817, 32734, 1891, 23810, 987, 15059, 8785, 43915,
      64815, 23818, 16344, 15024, 60673>>,
    <<3471, 31981, 58735, 65153, 27001, 12116, 5874, 38917, 26489, 47049,
      25299, 7490, 260, 55648, 20124, 26417>>,
    <<11644, 64977, 19017, 63689, 44746, 48602, 62404, 22027, 6583, 64289,
      51043, 37273, 13960, 45108, 40240, 51573>>,
    <<35290, 20950, 18212, 15382, 44323, 38590, 4364, 40936, 18817, 1869,
      48383, 39026, 33847, 31951, 34999, 10346>>,
    <<17794, 52470, 39398, 15036, 59892, 43676, 12146, 35630, 31956, 61830,
      16062, 42234, 49215, 55379, 51074, 21717>>,
    <<23960, 44819, 56928, 37889, 64623, 1273, 18787, 62395, 7919, 11663,
      27772, 45639, 57189, 40188, 15068, 3677>>,
    <<5048, 58225, 45605, 2627, 41040, 44142, 34932, 40797, 64588, 3754,
      59190, 7499, 6807, 5759, 20136, 25063>>,
    <<38402, 48809, 35119, 39737, 40430, 56183, 29545, 27485, 405, 56077,
      54731, 60328, 15121, 50256, 10432, 15029>>,
    <<9083, 47973, 62275, 47980, 62267, 54133, 34153, 44225, 9841, 13371,
      61113, 40324, 33270, 47285, 10316, 27974>>,
    <<12497, 4586, 18421, 10919, 63408, 44755, 4905, 22356, 44487, 42564,
      12638, 44095, 36015, 20371, 27385, 21199>>,
    <<33979, 11454, 64550, 29097, 24285, 2327, 16514, 22414, 48487, 10496,
      41573, 6465, 11256, 43065, 34740, 45916>>,
    <<20867, 35997, 49758, 5867, 10082, 41833, 44154, 21875, 54214, 11272,
      60776, 14244, 52346, 17354, 46871, 40817>>,
    <<26355, 13295, 27721, 10260, 53020, 30803, 31340, 39746, 50394, 13430,
      54978, 27989, 27329, 10999, 2489, 19277>>,
    <<16535, 43016, 37672, 21382, 43230, 40054, 37997, 39951, 7685, 16806,
      861, 24519, 28830, 9640, 46419, 63230>>,
    <<50865, 42670, 6656, 47743, 53106, 4488, 33604, 6302, 32541, 25271,
      11647, 3867, 20486, 59526, 8926, 10669>>,
    <<29967, 9478, 21234, 23348, 36889, 12028, 20803, 16018, 51252, 21227,
      11291, 61164, 16535, 36739, 39871, 18835>>,
    <<33854, 32985, 17430, 59994, 25271, 16506, 9963, 28387, 62985, 46792,
      32407, 53119, 35964, 43564, 29114, 43519>>,
    <<5756, 29093, 63378, 23477, 19549, 13832, 12658, 11763, 43905, 3485,
      7268, 29701, 4987, 3996, 35651, 40702>>,
    <<20638, 36130, 56329, 59889, 55718, 50355, 34714, 44120, 8573, 18101,
      54982, 21346, 57177, 30699, 39089, 62387>>,
    <<61292, 28123, 33410, 22607, 25646, 37876, 32640, 23584, 37622, 10176,
      48374, 65171, 7180, 6371, 37928, 14854>>,
    <<28717, 32296, 55287, 38579, 38090, 48254, 65342, 59081, 29177, 6379,
      2532, 63128, 6736, 52341, 48555, 48166>>,
    <<31825, 26763, 55489, 24893, 9956, 27713, 39321, 62758, 1375, 37397,
      14854, 58451, 4905, 19215, 28894, 10385>>,
    <<36615, 59268, 30712, 15032, 57634, 30257, 33552, 1841, 8570, 59294,
      19785, 31347, 21707, 6782, 64687, 63966>>,
    <<38834, 37223, 19424, 28539, 63106, 20552, 9284, 52880, 21372, 21572,
      21112, 58797, 29958, 929, 29387, 44456>>,
    <<31468, 63859, 24638, 12220, 50608, 20523, 9114, 35874, 50166, 14701,
      56128, 27715, 45383, 49399, 14015, 63909>>,
    <<31825, 27040, 64157, 40898, 42757, 64257, 52316, 52754, 42569, 59876,
      64856, 12313, 52899, 34028, 16817, 34629>>,
    <<47639, 38522, 30472, 12924, 43965, 250, 34366, 12316, 62890, 13984,
      63725, 41045, 40064, 24857, 31738, 2772>>,
    <<49273, 13689, 36556, 1443, 44974, 1955, 64465, 17853, 49252, 32086,
      39315, 17458, 8996, 38363, 11664, 833>>,
    <<14077, 2607, 48419, 31866, 50343, 63989, 14910, 54671, 17329, 5201,
      62527, 16305, 10140, 32421, 32763, 52217>>,
    <<13587, 47229, 14332, 18603, 33255, 37208, 5833, 11257, 15694, 57811,
      4194, 56285, 7495, 62124, 20274, 46491>>,
    <<52794, 23485, 9711, 23272, 22718, 60143, 51896, 51032, 1539, 62644,
      56980, 60817, 13134, 28435, 22022, 19906>>,
    <<42615, 12207, 3736, 64487, 21698, 60989, 51281, 3482, 62472, 39857,
      54056, 27869, 26943, 48349, 57661, 48421>>,
    <<42225, 43232, 13044, 33714, 57927, 30127, 42957, 27057, 56251, 47492,
      48739, 10020, 39658, 60338, 34126, 17766>>,
    <<3990, 25740, 32732, 35032, 31418, 19633, 1921, 10339, 44684, 55784,
      2514, 24598, 28525, 11137, 520, 40595>>,
    <<21134, 14117, 31531, 57685, 21759, 4755, 25857, 23980, 37313, 52761,
      63018, 49107, 64214, 756, 2049, 25848>>,
    <<2794, 60684, 26240, 23969, 339, 54803, 29403, 2045, 6409, 12906, 34348,
      52230, 19336, 4448, 14623, 29170>>,
    <<65396, 35470, 61958, 34450, 54786, 63819, 36364, 40511, 19266, 3339,
      42832, 18767, 53449, 18552, 39460, 44461>>,
    <<31427, 861, 9505, 25076, 51155, 36332, 11020, 46227, 19161, 16319,
      31758, 56799, 26260, 45316, 5637, 5343>>,
    <<42638, 5082, 59881, 25436, 50606, 19085, 16390, 34121, 8163, 6798,
      15423, 30554, 31933, 7141, 23866, 23344>>,
    <<17303, 2964, 51253, 503, 29438, 39628, 13481, 43306, 26636, 28333,
      61237, 3235, 62787, 18988, 39712, 9997>>,
    <<41005, 57294, 24558, 33218, 11662, 44121, 54104, 43218, 16603, 46307,
      40404, 24849, 8075, 55528, 32964, 5016>>,
    <<44239, 5210, 35361, 47697, 54735, 18578, 1745, 52394, 14903, 31144,
      29796, 16463, 48675, 8992, 1689, 10775>>,
    <<37539, 56107, 50997, 29983, 43718, 57286, 47801, 24961, 18773, 62286,
      45517, 18935, 32874, 8468, 13722, 18045>>
  >>

\* The FIPS 180-4 SHA-512 digest of the first n bytes of the SHA-512 message,
\* n = 0 .. 260, at index n + 1, as thirty-two 16-bit halves of the digest.
Sha512Standard ==
  <<
    <<53123, 57653, 32495, 47293, 61780, 10320, 54893, 32775, 54816, 58373,
      2903, 5596, 33780, 43297, 54124, 59854, 18384, 53564, 23941, 62128,
      65411, 6354, 34686, 60463, 25529, 12733, 18241, 31361, 42296, 12922,
      63783, 55870>>,
    <<8000, 64658, 55844, 5780, 29961, 31214, 27893, 33522, 54743, 53902,
      6195, 24032, 23228, 21712, 22030, 3923, 646, 3173, 11248, 36182, 594,
      43614, 29729, 1350, 62313, 64443, 52876, 4815, 51093, 31526, 21246,
      39541>>,
    <<11584, 35335, 6124, 6273, 22567, 35449, 27752, 36932, 13853, 50941,
      56872, 55024, 18803, 47112, 38625, 33337, 30157, 48914, 60259, 63968,
      22803, 10478, 9053, 33001, 46527, 6822, 42063, 17943, 65340, 44900,
      235, 5933>>,
    <<56751, 13729, 37729, 31418, 52289, 29513, 44576, 16689, 4838, 64078,
      35241, 32418, 2718, 61158, 19285, 54170, 8594, 39210, 10063, 49576,
      14010, 15395, 41982, 60349, 17741, 17443, 25660, 59406, 10906, 51535,
      42316, 42143>>,
    <<55298, 12064, 24749, 28413, 10618, 46909, 52307, 21961, 45588, 1355,
      3351, 30369, 13990, 27090, 27261, 15124, 63290, 41168, 60415, 6638,
      13107, 26864, 5707, 25625, 43373, 42142, 15944, 5971, 59369, 27505,
      27612, 52079>>,
    <<34698, 58970, 37608, 27820, 282, 22285, 19504, 42986, 60484, 11141,
      52878, 51724, 10578, 46563, 52230, 10434, 59293, 34970, 54485, 51142,
      9880, 27973, 11736, 25460, 46847, 43644, 55478, 30309, 48882, 10394,
      23664, 45217>>,
    <<58158, 61846, 9192, 60829, 9855, 25978, 33172, 19261, 1965, 47990,
      34072, 1678, 34883, 22341, 22094, 36161, 20640, 42755, 48682, 32136,
      46622, 15673, 3115, 47486, 11596, 12575, 56425, 54961, 9855, 1525,
      39593, 8423>>,
    <<55062, 42008, 34153, 46730, 45494, 57260, 6030, 22273, 5325, 61674,
      14876, 49379, 5254, 50148, 4673, 48234, 30274, 20108, 14251, 9968,
      38652, 34287, 39046, 51403, 25409, 34804, 64991, 63045, 64265, 40735,
      62796, 27532>>,
    <<41896, 51227, 51580, 9568, 269, 29577, 48264, 43721, 29857, 1248,
      57912, 4640, 50912, 33988, 56525, 7469, 6100, 63597, 45852, 10885,
      7624, 3686, 33239, 18227, 50525, 52483, 56726, 62982, 11485, 41258,
      10522, 59086>>,
    <<53706, 8005, 60061, 58466, 52106, 57826, 2567, 55282, 60419, 53528,
      57776, 26837, 37749, 16410, 38396, 36435, 41492, 31552, 13631, 28062,
      24377, 22779, 32289, 45046, 28907, 31364, 4301, 31378, 18807, 9947, 62,
      35122>>,
    <<64556, 45176, 64707, 51282, 57726, 47603, 24255, 16447, 9296, 15300,
      43734, 2495, 15956, 2168, 50575, 20493, 12333, 13226, 7889, 58808,
      58041, 60996, 44971, 23290, 48919, 59106, 50043, 30656, 33637, 16929,
      55275, 18475>>,
    <<40493, 34132, 48307, 4352, 11551, 13256, 39808, 15601, 50783, 45796,
      53909, 18625, 45948, 47933, 24329, 37864, 54028, 9334, 38813, 14541,
      61162, 17443, 19889, 4000, 18288, 2962, 38276, 17315, 60534, 41113,
      32603, 19490>>,
    <<42422, 49366, 15455, 26778, 49130, 28911, 21127, 39187, 852, 65455,
      53082, 16732, 3241, 13624, 62556, 4104, 7550, 64582, 18222, 48778,
      3879, 47970, 45761, 1989, 16072, 48331, 34845, 26753, 52219, 37396,
      17607, 37642>>,
    <<27501, 60741, 49212, 6096, 23417, 13076, 60654, 60688, 36743, 61135,
      7129, 31988, 21186, 45874, 3109, 24426, 52308, 40850, 36424, 46025,
      15942, 38681, 62844, 24281, 49973, 57158, 9721, 27237, 63942, 46839,
      20077, 19788>>,
    <<9788, 27389, 64144, 7043, 22193, 50489, 56225, 45387, 29967, 21232,
      4716, 61622, 13871, 50309, 16352, 28811, 35410, 14690, 53734, 41085,
      51006, 23430, 56959, 52108, 63380, 35463, 35544, 57897, 14653, 20122,
      17180, 24621>>,
    <<33733, 25067, 11798, 50774, 34966, 29767, 9194, 32640, 16428, 10198,
      63635, 44588, 60097, 31258, 51427, 30563, 31630, 29952, 20664, 28069,
      10370, 836, 53654, 23409, 5742, 9178, 25810, 32102, 2090, 51086, 42246,
      60447>>,
    <<43179, 40596, 15015, 47216, 12770, 58337, 1230, 56230, 51778, 65096,
      61132, 47162, 20150, 60395, 32023, 11669, 9519, 11761, 35557, 50402,
      60283, 1088, 40460, 15587, 64057, 32901, 63862, 42655, 52443, 7571,
      42929, 31823>>,
    <<57739, 26611, 27295, 51774, 64627, 19336, 52834, 36721, 4935, 52698,
      7615, 63328, 24867, 56587, 64193, 33900, 2112, 5426, 6646, 52841,
      65388, 9390, 23780, 50425, 12918, 16992, 53293, 41104, 1632, 8432,
      35880, 17077>>,
    <<64271, 32959, 8469, 10511, 56625, 51364, 64151, 60477, 7079, 62894,
      53255, 29405, 16459, 9811, 33757, 29111, 23940, 16683, 47907, 36917,
      10796, 40537, 25712, 31182, 49398, 36938, 50722, 58016, 7905, 20325,
      12557, 15033>>,
    <<9997, 8161, 58814, 32454, 50538, 46412, 47664, 23337, 20313, 29920,
      23311, 37450, 50386, 13817, 20791, 34881, 10, 41407, 1933, 12156,
      26306, 61612, 52304, 61077, 29351, 21362, 5329, 41931, 13844, 5262,
      247, 31332>>,
    <<8867, 49934, 27533, 22379, 32818, 48719, 31564, 43803, 65174, 59252,
      57084, 11956, 50155, 55813, 1997, 64035, 61392, 19119, 3190, 1344,
      62333, 48538, 22796, 62995, 1959, 46897, 16909, 1991, 8797, 36509,
      44879, 41626>>,
    <<18785, 44085, 27800, 53855, 22089, 1108, 32900, 45151, 12997, 35318,
      38099, 14755, 19709, 38766, 15566, 15215, 28681, 13892, 18127, 23725,
      21023, 27263, 61721, 12009, 9003, 3254, 42969, 32110, 16635, 40289,
      9705, 12868>>,
    <<35100, 58827, 22507, 50758, 2577, 40409, 63234, 22567, 11635, 17948,
      38252, 24109, 25751, 25916, 31682, 2567, 12307, 23671, 64811, 40497,
      5286, 16239, 739, 27380, 44269, 12664, 27575, 28827, 56281, 9355, 4988,
      6748>>,
    <<26813, 27074, 17744, 8905, 6596, 50978, 45326, 50475, 13074, 28027,
      22929, 38441, 52925, 63912, 32967, 31070, 17919, 24228, 24888, 29226,
      64386, 25546, 17343, 4810, 30415, 9212, 46696, 63926, 38493, 34434,
      827, 13224>>,
    <<45372, 62415, 46518, 19854, 41616, 42182, 54160, 4306, 64078, 20195,
      45475, 58386, 55508, 9255, 41150, 19785, 51753, 44421, 52939, 43967,
      8046, 32856, 38681, 22896, 56031, 221, 31072, 18935, 18038, 46838,
      44738, 3663>>,
    <<64245, 57216, 32542, 50503, 22046, 3062, 24981, 42401, 54866, 4230,
      938, 41445, 46970, 45576, 27921, 8360, 35245, 10179, 29330, 18478,
      22689, 2068, 23334, 46404, 8692, 37921, 878, 62340, 34844, 9362, 33113,
      53554>>,
    <<47837, 43780, 15447, 41130, 28239, 56688, 52733, 25143, 44777, 37614,
      60044, 7631, 17311, 26168, 45768, 12619, 60151, 48174, 62567, 56322,
      11650, 2055, 2254, 26009, 64194, 56084, 60798, 28288, 21577, 30308,
      62575, 4605>>,
    <<62863, 28485, 12049, 13415, 45268, 40237, 5376, 21146, 49438, 12469,
      9822, 15512, 16453, 50261, 5934, 34399, 65153, 52016, 8838, 52454,
      12572, 20256, 16235, 63838, 35612, 54601, 62176, 37035, 49645, 37716,
      34215, 54643>>,
    <<37185, 16052, 48226, 14167, 13690, 36723, 9307, 10293, 28781, 12108,
      42142, 42180, 45196, 25818, 58204, 61702, 43394, 51492, 54441, 38760,
      52603, 59356, 59026, 5907, 13916, 53704, 37391, 40902, 16792, 63617,
      48094, 54845>>,
    <<19663, 52317, 59618, 36305, 3679, 7, 64900, 49401, 6028, 33279, 57461,
      22630, 42373, 10990, 33505, 24795, 2427, 50677, 43964, 47376, 37903,
      10291, 25520, 12111, 63417, 46099, 4433, 33518, 55707, 40494, 44395,
      38741>>,
    <<39845, 12603, 44093, 64513, 35704, 35297, 54945, 33883, 47185, 26890,
      45587, 31510, 43964, 3710, 19461, 53233, 61850, 49648, 56879, 51212,
      30868, 32147, 41489, 2483, 26266, 48542, 27910, 51133, 53354, 29799,
      48349, 23872>>,
    <<27081, 22912, 10968, 11306, 52624, 26275, 2724, 25713, 6859, 17972,
      49184, 2252, 40461, 39765, 40644, 15580, 28612, 8053, 31057, 38578,
      32680, 19126, 23938, 20913, 37894, 16441, 48375, 43807, 59678, 47401,
      32454, 26739>>,
    <<39456, 35100, 6286, 10228, 3866, 8339, 52026, 31796, 31206, 17235,
      20989, 12337, 43251, 28091, 15460, 20445, 63224, 44666, 21661, 1842,
      30461, 38954, 30560, 12223, 44897, 30002, 21283, 54418, 57027, 43471,
      62011, 17091>>,
    <<36514, 43760, 26709, 691, 59600, 43897, 41820, 5322, 2598, 20776,
      51020, 61420, 61355, 33033, 7819, 46109, 45446, 17245, 41516, 10255,
      21100, 26151, 2206, 33262, 11730, 65285, 40578, 30252, 7036, 33088,
      49625, 4838>>,
    <<3443, 29812, 12948, 1998, 15632, 56504, 48778, 10046, 60083, 55185,
      13924, 1404, 965, 13663, 53107, 39178, 40009, 53783, 24013, 43675,
      22730, 48117, 16560, 41114, 44390, 9299, 43207, 63855, 47742, 42005,
      16071, 7759>>,
    <<36381, 22578, 52545, 9489, 3694, 16255, 20544, 52080, 41990, 53826,
      55330, 27720, 23439, 55669, 7962, 22105, 15064, 1333, 11445, 45039,
      44689, 53577, 58627, 41252, 27840, 50671, 14766, 62133, 33723, 51152,
      10296, 44042>>,
    <<59479, 50565, 47757, 42203, 46532, 39353, 61110, 37444, 11992, 25372,
      18027, 9299, 10186, 63424, 63204, 9814, 36379, 45752, 43084, 24986,
      38617, 35051, 40027, 49267, 52051, 783, 40558, 31705, 38028, 41764,
      40350, 40413>>,
    <<6869, 41717, 29433, 3845, 43082, 32720, 4872, 42015, 32243, 61339,
      48076, 14354, 11262, 56933, 49290, 61925, 54281, 61453, 295, 51767,
      15510, 26033, 64591, 9138, 61702, 64054, 24507, 2614, 10074, 39365,
      47748, 1023>>,
    <<42105, 17108, 7345, 6588, 47483, 48768, 16372, 29835, 41974, 26067,
      4084, 15001, 26421, 40321, 64846, 20810, 42048, 47601, 43035, 33109,
      26994, 15552, 13243, 29037, 21650, 11119, 54146, 8440, 22400, 5884,
      31069, 17810>>,
    <<4745, 20274, 38136, 26768, 63712, 56854, 353, 31880, 63003, 21248,
      16451, 2538, 344, 34537, 60603, 26786, 50454, 28799, 39769, 3839,
      30479, 18928, 56848, 37493, 27493, 3511, 57087, 31871, 17500, 29775,
      63713, 27872>>,
    <<18275, 38278, 21015, 39085, 300, 39085, 8215, 45905, 15463, 61832,
      44626, 32933, 30125, 14359, 15581, 1065, 41642, 15538, 40434, 1535,
      41395, 2, 42506, 6441, 55205, 35356, 23274, 1079, 4138, 17861, 61002,
      3878>>,
    <<5617, 38368, 59862, 13582, 54612, 25425, 16474, 25853, 29529, 53564,
      27823, 51364, 15274, 25057, 43086, 5481, 62373, 18606, 33881, 16461,
      19798, 15533, 52753, 64090, 20691, 42913, 19289, 1315, 17450, 15089,
      47494, 11697>>,
    <<9583, 5806, 40010, 18386, 52471, 39627, 54542, 47184, 40230, 27866,
      17871, 18713, 33233, 16126, 19899, 50911, 53258, 30856, 57158, 15743,
      38733, 20649, 51452, 14144, 40834, 22249, 59418, 31650, 30976, 41987,
      19000, 24289>>,
    <<50701, 41714, 49189, 7675, 836, 31082, 55436, 46542, 45013, 11527,
      3873, 26063, 7940, 14026, 43256, 24138, 54992, 62546, 10971, 43765,
      41103, 47195, 2970, 51013, 46075, 7107, 8790, 56239, 35494, 55200,
      58812, 13391>>,
    <<52100, 15338, 19058, 26904, 5688, 61433, 15146, 23758, 56548, 15907,
      10648, 7269, 56877, 44289, 37336, 31420, 49135, 54540, 38262, 42453,
      50633, 12479, 8733, 29647, 35821, 35200, 347, 5488, 47044, 13795,
      32459, 57761>>,
    <<20585, 13427, 9242, 13368, 54689, 48385, 21954, 59509, 51558, 42643,
      10216, 61858, 56255, 3659, 1386, 39300, 32895, 38801, 45991, 55229,
      7800, 34696, 24562, 2828, 57440, 54468, 23636, 34823, 461, 43711,
      19523, 35243>>,
    <<36767, 23187, 65440, 5978, 62061, 35014, 13284, 25657, 925, 31190,
      51035, 21095, 22092, 20893, 49575, 14819, 5058, 8156, 37016, 11271,
      4830, 56439, 36938, 20730, 11227, 51076, 43616, 48379, 31389, 43862,
      14381, 27050>>,
    <<23847, 13606, 38631, 38780, 57217, 22925, 40804, 51064, 9969, 20583,
      6266, 30079, 20529, 19682, 41966, 14008, 15900, 29738, 8202, 20372,
      32680, 38697, 17157, 29425, 22267, 45035, 38590, 15676, 2443, 19146,
      58584, 33573>>,
    <<15888, 41824, 65441, 33874, 12233, 7463, 43691, 35269, 21491, 11999,
      18297, 36388, 57378, 59668, 44154, 44760, 60868, 25354, 45904, 47666,
      15142, 32787, 24000, 61833, 26846, 12414, 2862, 50257, 16125, 32789,
      19126, 42383>>,
    <<634, 10340, 53499, 60659, 983, 62427, 64202, 36441, 58709, 44063,
      49246, 41888, 63894, 13890, 6922, 11701, 52486, 27953, 57580, 24979,
      63022, 48163, 35178, 50773, 15082, 20967, 1901, 15157, 12202, 5479,
      42270, 52337>>,
    <<45960, 32503, 27536, 43868, 14431, 37152, 62210, 6481, 32606, 8896,
      9374, 29488, 26911, 30604, 61075, 28037, 11217, 55800, 5678, 18458,
      54155, 60571, 56211, 46369, 56037, 22195, 13333, 19350, 15292, 59392,
      51802, 50467>>,
    <<20734, 1656, 36179, 38090, 40417, 64729, 6616, 35085, 156, 49826,
      64698, 11659, 20667, 54148, 43671, 12449, 22176, 29552, 57587, 36261,
      47300, 58384, 61663, 9829, 2668, 54750, 30858, 36961, 21320, 47040,
      39444, 6595>>,
    <<59105, 6911, 11290, 59914, 23441, 59256, 54618, 60893, 31823, 49269,
      34380, 31822, 58320, 2295, 59233, 29610, 51610, 38610, 22556, 57969,
      18502, 63311, 50316, 12244, 27317, 48729, 21858, 28070, 25663, 46086,
      10499, 34842>>,
    <<14463, 47925, 798, 31510, 30453, 51638, 35051, 46941, 53004, 55104,
      51178, 57044, 40603, 15989, 26737, 16422, 19222, 599, 15186, 27006,
      47984, 48537, 10620, 31862, 11528, 28329, 10960, 17993, 22217, 53773,
      20727, 6811>>,
    <<38476, 61242, 64150, 24025, 2726, 59304, 44967, 46319, 49280, 14335,
      62068, 1439, 61475, 12859, 3115, 45320, 23415, 22870, 22458, 12148,
      2660, 37668, 20077, 31202, 31370, 56391, 9360, 31366, 20209, 57807,
      15986, 33328>>,
    <<28234, 52460, 19667, 14510, 30202, 11273, 24330, 24768, 31957, 27100,
      64810, 25058, 36910, 52184, 38250, 51905, 24416, 7068, 40120, 41374,
      42876, 8586, 1360, 61679, 8166, 28348, 53737, 4798, 18367, 44251,
      28092, 8314>>,
    <<26610, 3912, 3475, 35284, 36545, 29509, 57558, 58374, 59929, 12883,
      50487, 34337, 40650, 49679, 58275, 1079, 62628, 22984, 20927, 41069,
      47504, 48854, 63749, 36743, 2131, 37791, 35849, 33189, 145, 64855,
      5523, 38560>>,
    <<44594, 52311, 31462, 15002, 64203, 58766, 31951, 17234, 21857, 41023,
      58914, 39189, 22612, 57362, 6199, 33629, 9844, 58489, 26539, 41974,
      30450, 52423, 8663, 65482, 26917, 61034, 46981, 42841, 65044, 17202,
      13909, 21306>>,
    <<13662, 2215, 26925, 17214, 44641, 39332, 33242, 50824, 26267, 49611,
      8515, 60754, 39754, 33947, 63332, 65377, 54726, 55648, 16645, 38591,
      58564, 27596, 52284, 27702, 22147, 4911, 38571, 38157, 59329, 47107,
      28092, 59242>>,
    <<47386, 26970, 46824, 6995, 34189, 23963, 59301, 33594, 2337, 1523,
      32149, 48314, 39624, 41669, 35305, 43105, 24222, 42463, 13976, 24689,
      57331, 59737, 26185, 53901, 53811, 26499, 41248, 33134, 4948, 30428,
      46878, 2131>>,
    <<23628, 48008, 9805, 41440, 58167, 59051, 704, 8558, 18575, 25347,
      36341, 10158, 14227, 7368, 57570, 36645, 21113, 19736, 64681, 3971,
      38340, 27704, 18217, 38965, 8948, 483, 31218, 40638, 31763, 571, 58191,
      15171>>,
    <<37724, 52280, 48648, 62646, 51026, 17829, 44631, 26946, 57721, 25171,
      8858, 45791, 12770, 37633, 44629, 2706, 45318, 55644, 6221, 50531,
      59949, 62974, 32628, 52116, 1051, 11385, 12357, 61319, 617, 61208,
      11414, 32082>>,
    <<59628, 61285, 22281, 14509, 1572, 50939, 17016, 55288, 25379, 60508,
      49827, 52763, 22032, 58351, 1295, 23410, 14465, 48476, 58783, 41116,
      45232, 20689, 531, 58190, 64376, 48278, 45208, 64303, 62725, 26919,
      2202, 13808>>,
    <<33594, 13574, 7137, 59732, 4432, 63404, 19574, 14946, 7604, 60984,
      1176, 23915, 16803, 120, 56113, 37619, 20953, 4215, 7189, 54031, 10629,
      28047, 56955, 8652, 62842, 61666, 30966, 63480, 22452, 27422, 61183,
      34350>>,
    <<37073, 48569, 42699, 63947, 3402, 32536, 24288, 34564, 22260, 16568,
      7955, 62740, 62550, 6664, 4391, 25426, 12339, 9304, 30134, 33289,
      47903, 23890, 5562, 51230, 3433, 63347, 29900, 17617, 48688, 62860,
      35681, 20801>>,
    <<61218, 47858, 6132, 63345, 7549, 48055, 27063, 30068, 41003, 58877,
      30736, 43165, 32955, 32860, 16255, 35066, 52554, 36820, 28401, 62941,
      32611, 62448, 45540, 42251, 58054, 29466, 15819, 14793, 12758, 9706,
      63846, 54392>>,
    <<53525, 55199, 65489, 61428, 4877, 4231, 47399, 38082, 12876, 38284,
      16964, 65112, 22288, 29320, 35661, 33936, 7696, 45504, 12422, 18974,
      46741, 41099, 37214, 42781, 22158, 36364, 4023, 6032, 33917, 3875,
      9767, 10059>>,
    <<35999, 51565, 9952, 57999, 53135, 60162, 50799, 15642, 15109, 26519,
      2568, 14278, 52879, 49329, 19052, 14900, 52521, 3505, 65214, 13595,
      24493, 8372, 55363, 36230, 30854, 17463, 35144, 15380, 13255, 28727,
      47862, 49871>>,
    <<21683, 25395, 8516, 17817, 55589, 16477, 62181, 2458, 12153, 33641,
      13033, 24959, 43900, 65128, 30945, 53381, 18882, 38306, 50786, 25797,
      31448, 60348, 45557, 40548, 17538, 53326, 36283, 49223, 47323, 43631,
      63751, 6018>>,
    <<3211, 25616, 61830, 2664, 10374, 43878, 30174, 29419, 35145, 58143,
      55799, 49656, 53514, 17926, 57989, 7945, 10413, 50057, 50984, 18560,
      26363, 58437, 5259, 41210, 6096, 7956, 48601, 59861, 4464, 49323,
      15573, 27988>>,
    <<11501, 50329, 15923, 5861, 7800, 47974, 36029, 10868, 12556, 50172,
      20760, 10270, 65468, 58618, 64187, 3884, 48888, 49819, 31011, 13405,
      48061, 23461, 3251, 28082, 11255, 1793, 43137, 42890, 17348, 58265,
      60399, 25080>>,
    <<29338, 9177, 7980, 11396, 32129, 25106, 13388, 30764, 21969, 9, 57367,
      48813, 34128, 62525, 31593, 21960, 42121, 59270, 29844, 63770, 18946,
      9762, 25778, 38786, 23926, 58977, 35660, 22240, 21962, 33059, 26879,
      55563>>,
    <<60659, 22811, 26996, 25870, 59287, 6452, 36676, 20869, 13012, 42482,
      56065, 31071, 53734, 43549, 24018, 59214, 11004, 56918, 62036, 19428,
      53699, 33711, 6418, 7075, 9620, 24880, 40738, 48063, 50227, 53785,
      13013, 15357>>,
    <<27559, 10589, 53548, 38163, 14107, 24066, 9217, 1619, 27938, 47795,
      38907, 49377, 25780, 28511, 48820, 13004, 62994, 5800, 13375, 52250,
      2903, 52416, 6994, 22956, 21026, 60080, 6726, 12752, 33805, 57635,
      54353, 14936>>,
    <<33638, 44198, 27862, 22239, 10531, 57170, 38644, 53634, 51260, 30292,
      57198, 57213, 18923, 5643, 11158, 27414, 46263, 46662, 32151, 5599,
      11894, 11423, 49015, 59125, 61427, 64277, 56990, 44965, 11978, 11395,
      28062, 12511>>,
    <<22343, 43809, 37176, 12563, 28305, 21816, 7576, 60141, 50425, 24473,
      33452, 8156, 4813, 61203, 64871, 52369, 4060, 55252, 3981, 21887,
      51408, 28130, 20647, 34415, 61705, 30134, 21702, 54294, 42405, 43440,
      42960, 3002>>,
    <<27153, 20514, 44817, 28348, 6460, 55198, 10210, 3962, 35509, 35524,
      33869, 12320, 30352, 60993, 7158, 55145, 1785, 62009, 8536, 39469,
      49431, 18667, 15022, 19801, 45387, 51285, 29325, 64509, 65, 45626,
      7319, 17779>>,
    <<43665, 44390, 47746, 37102, 35456, 64798, 23747, 32929, 40151, 56416,
      57374, 8016, 6135, 16542, 52963, 57047, 64640, 16251, 6820, 7964,
      53240, 8955, 44305, 24179, 38007, 4206, 626, 64174, 57463, 53093,
      61096, 32334>>,
    <<58033, 28011, 20952, 49776, 5303, 29559, 54893, 48221, 60007, 38141,
      30778, 19764, 5887, 53613, 32580, 27501, 55113, 26600, 36574, 31547,
      50046, 22895, 63437, 38909, 29306, 14394, 43469, 24896, 23508, 56332,
      19560, 55542>>,
    <<49755, 46405, 57809, 4019, 56061, 33981, 28270, 3959, 60505, 56147,
      39211, 13093, 18395, 18532, 58871, 12102, 39163, 15698, 52858, 625,
      26586, 52398, 57372, 17532, 41836, 61510, 33322, 46537, 61576, 33787,
      46018, 59684>>,
    <<60842, 37088, 43716, 14981, 43681, 7939, 35481, 27193, 47145, 57009,
      12486, 52155, 23578, 14269, 50436, 25371, 11949, 52794, 40398, 64606,
      30688, 28090, 8639, 64277, 31516, 24972, 48126, 49123, 8398, 46412,
      37978, 26424>>,
    <<14226, 15690, 47187, 34351, 28261, 856, 37175, 29226, 31313, 12888,
      28599, 62222, 57950, 48895, 11643, 61310, 16951, 11396, 34832, 41212,
      9205, 63900, 56602, 5613, 53883, 53083, 41612, 58910, 38236, 47466,
      28189, 10822>>,
    <<27452, 1254, 22943, 12839, 47164, 15084, 55820, 12438, 91, 27829,
      55260, 49536, 40687, 23743, 61442, 2744, 3698, 13459, 17913, 53911,
      61837, 58959, 21620, 26440, 16664, 37987, 43767, 49070, 62267, 44029,
      46924, 48168>>,
    <<39514, 1830, 54612, 33707, 28098, 1248, 11865, 54249, 36365, 52049,
      12646, 57861, 49873, 54763, 11795, 39130, 59873, 24041, 30722, 21266,
      34568, 15432, 42636, 53443, 14686, 39035, 35664, 16037, 40649, 13751,
      27188, 49930>>,
    <<58762, 58977, 23819, 64689, 3489, 30392, 11603, 57561, 22919, 20757,
      2414, 46010, 17602, 32169, 5643, 61254, 51214, 29345, 43517, 32461,
      42091, 36122, 47314, 44695, 4213, 58289, 4670, 14187, 21287, 37326,
      16570, 38315>>,
    <<49043, 30281, 25649, 29078, 47023, 12097, 40598, 44041, 42164, 46379,
      1234, 16588, 44250, 1523, 46869, 48107, 52034, 58818, 841, 27486,
      44322, 19877, 63851, 57821, 32856, 11967, 14656, 28632, 11056, 36638,
      53557, 59253>>,
    <<12915, 40909, 16663, 8393, 49152, 14770, 21183, 3304, 49810, 7697,
      11077, 41751, 52812, 53368, 24860, 20363, 60227, 55435, 23551, 5284,
      64418, 62845, 51563, 63972, 48179, 43842, 55428, 64845, 23243, 45845,
      40069, 56336>>,
    <<62541, 400, 45645, 24222, 38114, 48038, 24800, 50130, 22382, 30428,
      42292, 65338, 62674, 60743, 28795, 8080, 39934, 53055, 43984, 24881,
      45718, 29793, 25350, 14557, 30518, 24998, 13434, 34641, 7004, 40712,
      53365, 59189>>,
    <<58658, 18140, 27503, 2644, 10242, 53706, 19807, 61102, 40064, 65353,
      4461, 35337, 33686, 17036, 48730, 3529, 58540, 48059, 14277, 63306,
      2028, 59066, 24723, 50478, 11422, 57066, 17085, 21704, 15817, 57249,
      55659, 36250>>,
    <<55326, 15792, 35295, 18050, 60636, 65327, 2667, 15241, 28057, 50594,
      13571, 36389, 48069, 62645, 22799, 128, 7768, 21106, 20901, 42578,
      46163, 37534, 40687, 27833, 47213, 13964, 49949, 1536, 34882, 34933,
      56128, 16664>>,
    <<2927, 33826, 42562, 25263, 41335, 28909, 43020, 20710, 45766, 38749,
      43308, 15865, 6416, 9749, 48359, 25567, 19708, 7520, 57326, 39851,
      53303, 58568, 31360, 37578, 3664, 21529, 47279, 55575, 4616, 49060,
      1895, 51197>>,
    <<18981, 47370, 35126, 16715, 16272, 10560, 2838, 12610, 20810, 26598,
      61239, 14374, 64372, 41181, 3286, 35782, 41428, 6837, 54284, 8068,
      15713, 39751, 26452, 60061, 6290, 65527, 21774, 64235, 54282, 15224,
      13458, 13871>>,
    <<36830, 54851, 44400, 32574, 8736, 12900, 9610, 51384, 38476, 21308,
      63676, 58930, 9734, 41441, 46223, 62563, 6181, 56029, 61377, 35881,
      38978, 53969, 24036, 5494, 60426, 45693, 49074, 53269, 17507, 11261,
      35269, 42227>>,
    <<61367, 45692, 42700, 13748, 16069, 59498, 56110, 65161, 26486, 2755,
      2087, 38545, 116, 46522, 63781, 64617, 53579, 39603, 52592, 8042, 6708,
      3818, 48947, 16934, 22077, 32932, 21829, 19651, 38120, 39997, 5207,
      18827>>,
    <<6805, 61169, 52308, 35221, 38137, 35545, 12801, 60450, 10447, 61734,
      64520, 61059, 64462, 37949, 31943, 64752, 41428, 28822, 55317, 4460,
      35312, 12214, 11926, 8130, 3186, 45104, 46682, 39235, 51985, 1928,
      39004, 64594>>,
    <<40113, 32891, 5463, 53750, 33734, 31270, 18699, 63120, 20543, 23215,
      46856, 18908, 33435, 32024, 23654, 48210, 1021, 43166, 41879, 54345,
      30660, 11803, 13663, 27632, 41607, 62099, 54869, 57947, 11927, 5692,
      18977, 1247>>,
    <<1924, 64808, 17693, 3742, 16885, 2355, 46212, 32165, 40259, 2260,
      26766, 30235, 11339, 35777, 48982, 43411, 21868, 61513, 53853, 20276,
      50373, 27238, 33152, 6775, 55969, 37315, 13537, 36471, 9118, 4692,
      61371, 8408>>,
    <<6729, 35662, 29684, 1079, 47216, 6322, 32897, 43753, 46373, 25189,
      28767, 27175, 10007, 16400, 44522, 30253, 36320, 33375, 19124, 17680,
      32071, 587, 39618, 3337, 58943, 39433, 12506, 8448, 64374, 61935,
      34901, 32209>>,
    <<31679, 44822, 3467, 32364, 17502, 41982, 53052, 65274, 12796, 35703,
      56365, 43152, 52742, 51495, 14877, 23678, 19167, 17385, 41000, 13145,
      64061, 55130, 51266, 27813, 30241, 17424, 45977, 31124, 34555, 6250,
      53661, 19654>>,
    <<42812, 60296, 28101, 50839, 60669, 27923, 63041, 13131, 9566, 41956,
      39932, 19180, 56640, 33419, 16486, 25083, 10948, 52226, 50901, 51260,
      14464, 50049, 52789, 1407, 2089, 41203, 53425, 16629, 14688, 44473,
      34372, 25362>>,
    <<58905, 19974, 32041, 22369, 1425, 33298, 19353, 5701, 36184, 43961,
      30044, 49374, 38477, 9113, 42833, 20436, 18951, 2266, 22774, 48849,
      58501, 59131, 15590, 37974, 24158, 3365, 46160, 65511, 44207, 285,
      1563, 27556>>,
    <<55317, 27767, 2706, 55157, 39441, 26597, 60635, 13905, 50360, 58464,
      53971, 33934, 36686, 54171, 39227, 18610, 9885, 32857, 22493, 45419,
      56365, 64005, 48655, 32973, 37486, 57316, 33474, 46185, 40889, 35224,
      10175, 5386>>,
    <<61993, 20165, 52468, 23095, 44508, 6708, 20832, 28677, 11009, 54859,
      7922, 17466, 62445, 56295, 34022, 44624, 28089, 63320, 25403, 64028,
      39586, 5074, 22800, 28481, 24685, 47868, 63584, 47064, 24074, 64652,
      23890, 42840>>,
    <<23305, 49581, 27450, 2012, 26766, 9424, 35296, 46558, 30220, 33080,
      39672, 50983, 36683, 35873, 63999, 45256, 44523, 28680, 33394, 55989,
      40333, 14905, 20353, 53374, 15298, 22300, 22399, 17594, 35164, 15811,
      13726, 30925>>,
    <<58961, 12735, 3151, 6858, 57727, 4953, 32813, 18458, 63442, 51796,
      11166, 60960, 60127, 44915, 43052, 25228, 15147, 57303, 55855, 30078,
      61436, 62589, 47983, 37324, 9510, 16572, 32319, 40293, 26450, 59554,
      25492, 43493>>,
    <<15968, 57652, 15020, 18453, 3838, 46736, 21741, 44687, 40818, 61566,
      58676, 29034, 3337, 20674, 32931, 19173, 25230, 20745, 34811, 13218,
      55423, 28448, 6734, 13897, 21674, 20210, 24889, 34576, 15923, 39559,
      46771, 31007>>,
    <<13498, 47963, 26045, 46026, 35286, 37428, 3564, 37958, 37285, 36223,
      18821, 40164, 22175, 19237, 49001, 55076, 34680, 9905, 1947, 62866,
      536, 42053, 52225, 51090, 57280, 12783, 23509, 9554, 41001, 47946,
      36385, 20537>>,
    <<60487, 18549, 5051, 35279, 22285, 28079, 44961, 48143, 52845, 63644,
      52736, 28083, 24038, 8832, 35158, 5185, 37913, 18904, 14080, 36990,
      53883, 54936, 40188, 14101, 39870, 6239, 287, 23892, 14372, 31900,
      60808, 19636>>,
    <<35121, 37652, 4159, 46384, 55557, 23706, 8544, 50693, 4591, 32207,
      8312, 17511, 49367, 30174, 39990, 41978, 51954, 14776, 5978, 33649,
      34704, 36220, 61066, 29333, 59024, 20387, 10165, 29774, 3795, 64753,
      50696, 64151>>,
    <<43428, 49916, 34212, 23118, 57950, 50955, 10337, 24559, 58209, 48694,
      28888, 17648, 57324, 9817, 41523, 22894, 5937, 40625, 60704, 3867,
      59905, 3876, 33952, 48462, 38126, 26965, 43379, 17069, 34689, 17913,
      6676, 7447>>,
    <<29185, 5493, 64355, 7077, 47087, 45148, 58196, 54560, 49706, 7280,
      22950, 26494, 54792, 30217, 26502, 24697, 61645, 64899, 35179, 6663,
      7710, 40976, 25509, 58948, 58769, 4837, 44245, 42704, 45357, 17565,
      11903, 21654>>,
    <<2440, 56174, 59290, 41140, 45707, 2877, 11677, 20640, 49784, 8516,
      47697, 41024, 23519, 33520, 20105, 24502, 42116, 35155, 40962, 36147,
      56687, 52768, 50073, 19719, 36739, 33503, 50313, 850, 7290, 42820,
      56811, 63174>>,
    <<36501, 39797, 56035, 5082, 36084, 63272, 5372, 5183, 36727, 31174,
      60319, 32673, 29337, 44717, 46728, 36888, 20509, 10398, 18688, 63460,
      13083, 39390, 50357, 17210, 51155, 10734, 46813, 9812, 24214, 58715,
      34635, 59657>>,
    <<25586, 4408, 39357, 4254, 49620, 61150, 42395, 32215, 17603, 30915,
      8916, 33880, 33959, 55725, 43208, 46230, 60136, 47401, 64332, 58736,
      48694, 5843, 56045, 38937, 12565, 34773, 22679, 55253, 23943, 7457,
      4751, 54050>>,
    <<62755, 20758, 693, 7877, 48961, 2425, 13858, 373, 49261, 14828, 62796,
      9606, 6827, 27928, 42866, 29787, 47832, 30615, 4987, 8028, 25420,
      14459, 8187, 37272, 41035, 19404, 55389, 35317, 29980, 31378, 8501,
      61314>>,
    <<32558, 65174, 13986, 51528, 809, 31299, 35317, 55684, 53188, 30482,
      36116, 19216, 65437, 6168, 9660, 28024, 28053, 51311, 56498, 56250,
      52195, 45746, 62903, 4794, 61492, 52272, 32148, 64708, 58242, 53881,
      50991, 31313>>,
    <<35421, 16298, 16068, 12879, 27051, 19091, 64543, 50346, 3143, 28924,
      13980, 6775, 58098, 30096, 2744, 1871, 17461, 53154, 9418, 59705,
      57495, 52136, 52625, 39083, 7236, 2736, 65376, 58133, 48309, 23550,
      57696, 17093>>,
    <<53857, 41793, 32572, 49823, 8177, 35738, 55182, 15087, 13942, 64387,
      11908, 29540, 15387, 55046, 43997, 54842, 20980, 46321, 51870, 26461,
      7855, 61206, 12786, 31926, 33337, 22981, 36612, 27089, 3790, 40556,
      51459, 25723>>,
    <<37819, 54326, 16971, 25654, 39966, 852, 59729, 27746, 20623, 63441,
      10885, 9485, 16024, 53904, 22650, 65061, 14199, 52258, 43430, 22206,
      51193, 13070, 18222, 13318, 58590, 55691, 32669, 60006, 9754, 36579,
      54634, 750>>,
    <<43226, 93, 63356, 51914, 24098, 3146, 51652, 11766, 34639, 58241,
      36088, 11249, 61729, 4683, 48766, 31980, 15276, 55349, 38259, 23769,
      51846, 63221, 40123, 11263, 29277, 1784, 7855, 2130, 35707, 7333,
      57814, 20151>>,
    <<7678, 8167, 23610, 65064, 10780, 28582, 49782, 2338, 217, 52987, 42434,
      30405, 37927, 55422, 20710, 20502, 50296, 59219, 20860, 42115, 52140,
      43331, 5028, 17836, 31765, 58505, 5113, 50045, 20480, 64150, 46729,
      19517>>,
    <<21644, 13098, 55329, 60076, 24944, 56010, 15394, 32842, 20324, 54409,
      25931, 61386, 27414, 41463, 57228, 10563, 28467, 54891, 14561, 64666,
      11193, 39651, 62713, 9393, 5559, 28342, 27698, 53111, 2413, 18218,
      36767, 27934>>,
    <<19267, 26840, 44518, 19327, 644, 25910, 63693, 44710, 34209, 14553,
      42617, 22337, 43104, 63181, 54571, 8835, 5742, 51159, 49656, 10311,
      22980, 40236, 28075, 53786, 13976, 37708, 38229, 42444, 26316, 49098,
      60559, 11132>>,
    <<38225, 59234, 46732, 54560, 57461, 43523, 11429, 15191, 51116, 38144,
      7461, 19114, 2234, 27373, 9335, 26524, 61026, 46770, 49254, 5401,
      49633, 29691, 15324, 48339, 31612, 17609, 31574, 32613, 21527, 9732,
      48768, 60733>>,
    <<24732, 18135, 36926, 1790, 3332, 36288, 57969, 39230, 1773, 65291,
      39007, 21010, 29135, 32232, 49850, 35881, 23048, 13021, 56168, 56597,
      58381, 39297, 53086, 19454, 48687, 28223, 4247, 13752, 25873, 46251,
      27625, 57534>>,
    <<53354, 11987, 24399, 19186, 7204, 30670, 46590, 18613, 40849, 44590,
      11633, 25997, 60054, 52111, 26121, 3903, 5440, 47130, 12718, 40267,
      37909, 12353, 32722, 34285, 32529, 16885, 36788, 53430, 14444, 6710,
      22499, 22118>>,
    <<59147, 33748, 20974, 35427, 3451, 57170, 50129, 21971, 61303, 27894,
      18910, 61576, 29162, 54099, 5017, 64281, 41995, 38916, 36728, 16005,
      14535, 12632, 36361, 58230, 34666, 36093, 42116, 29056, 44298, 17700,
      4367, 44781>>,
    <<50762, 45481, 5315, 8732, 5343, 45195, 58155, 14409, 7644, 64172,
      45419, 2688, 19267, 2381, 42765, 8232, 18973, 51505, 54070, 10984,
      37342, 39375, 64354, 7558, 49239, 24978, 32636, 63818, 22090, 19041,
      51000, 4107>>,
    <<36027, 32054, 17877, 58401, 44414, 46791, 45027, 22329, 8050, 26212,
      20982, 42687, 46133, 16509, 22893, 14942, 53870, 4500, 26463, 27663,
      54634, 5575, 61913, 1233, 6899, 53318, 54037, 34380, 9079, 46341,
      37165, 19535>>,
    <<3956, 3180, 58932, 31576, 48101, 24475, 60052, 1675, 2048, 14725,
      21174, 27761, 39070, 50481, 9739, 52492, 55636, 27287, 61734, 18878,
      52343, 46866, 5957, 49934, 13565, 43618, 32293, 37625, 35191, 56901,
      45608, 63926>>,
    <<50345, 21980, 43206, 37635, 58671, 61007, 10985, 53728, 18125, 7402,
      51555, 1752, 44851, 62416, 681, 4274, 27538, 38891, 11326, 1588, 20258,
      26560, 36560, 1587, 19193, 11711, 15499, 41872, 16799, 16588, 28088,
      28978>>,
    <<38092, 59569, 61664, 38502, 54486, 53629, 22351, 13871, 28279, 62077,
      59591, 4656, 23395, 3596, 54471, 45261, 28978, 16472, 45687, 17840,
      46360, 49001, 15519, 6469, 59743, 55343, 20801, 10789, 26899, 55059,
      13307, 350>>,
    <<19576, 20858, 21005, 15164, 56376, 13436, 59814, 46423, 30378, 46509,
      4310, 4408, 28621, 51476, 33683, 14965, 26454, 31390, 27296, 29672,
      52237, 44834, 23266, 53835, 63767, 48826, 25623, 39279, 41558, 50385,
      41762, 5817>>,
    <<39065, 51011, 14646, 306, 63640, 7353, 63745, 42086, 13290, 45519,
      44766, 54755, 6931, 46869, 38289, 31644, 52214, 30102, 64997, 65024,
      35626, 12100, 42779, 37620, 5377, 27593, 54612, 2546, 32978, 61548,
      41864, 5608>>,
    <<61257, 31431, 45535, 1597, 17676, 42048, 64204, 58930, 18593, 18418,
      933, 64354, 40804, 12428, 55703, 11993, 1203, 40615, 17286, 9517,
      49309, 60232, 64250, 44170, 12240, 22373, 843, 38011, 6096, 10059,
      13059, 29328>>,
    <<59054, 2907, 37084, 32663, 43973, 24296, 36097, 19002, 62318, 32197,
      3408, 24316, 49301, 27734, 10794, 9656, 60226, 29805, 36332, 16038,
      25390, 49553, 28042, 5565, 4868, 63880, 57568, 24039, 35898, 47172,
      48168, 46991>>,
    <<41674, 7803, 371, 37594, 55054, 3404, 10058, 5050, 29057, 54878, 22647,
      34305, 56267, 58269, 33425, 28364, 32743, 47229, 19868, 20632, 42041,
      54456, 8025, 62327, 1080, 65484, 9722, 63595, 45850, 49775, 15820,
      54699>>,
    <<14367, 52994, 59112, 43061, 32482, 5105, 30080, 9738, 33921, 54844,
      40187, 47449, 63326, 40280, 47233, 39446, 49868, 6480, 32363, 53909,
      14013, 4328, 17700, 37479, 17419, 10510, 16188, 40254, 51084, 61580,
      43750, 21020>>,
    <<53, 31803, 11767, 13488, 44495, 10620, 14802, 49815, 28490, 8599,
      20729, 32559, 20443, 62084, 61108, 35046, 37458, 4698, 1154, 28223,
      47202, 995, 3794, 23671, 20736, 9312, 47726, 23281, 30347, 48456, 7082,
      5275>>,
    <<4401, 6668, 56740, 19161, 15863, 58824, 8185, 57696, 27695, 11510,
      54983, 31781, 36369, 30405, 34547, 55352, 46592, 29158, 54423, 10234,
      28599, 63604, 57734, 7388, 14900, 20776, 43222, 29246, 10791, 39803,
      27197, 36360>>,
    <<8883, 12054, 33262, 45726, 39297, 5633, 14081, 65488, 5593, 55202,
      56909, 16482, 37676, 18995, 17232, 45115, 18420, 57560, 54069, 52474,
      31083, 22304, 30099, 27602, 25254, 53188, 37287, 409, 60865, 39731,
      26280, 47503>>,
    <<35052, 11387, 20500, 54962, 26687, 52074, 64776, 11336, 6776, 32795,
      51435, 40153, 43171, 56999, 64406, 31636, 8530, 29613, 54771, 45545,
      37786, 12714, 46340, 31141, 19557, 4054, 42799, 15871, 18324, 23423,
      44511, 3202>>,
    <<26124, 24676, 60943, 54584, 44079, 42977, 58328, 32646, 6211, 58281,
      56682, 9818, 21135, 47999, 57419, 220, 63145, 21524, 27372, 59993,
      52087, 41266, 38803, 20376, 49976, 28602, 19804, 36632, 43312, 57362,
      4629, 60090>>,
    <<65221, 16717, 36502, 16358, 56674, 24665, 42720, 10774, 43776, 24238,
      42744, 55326, 50276, 43716, 54752, 35786, 58808, 34902, 8606, 1801,
      52242, 49740, 32438, 13290, 36343, 38737, 28660, 37812, 3247, 61932,
      49007, 36879>>,
    <<2207, 51636, 17888, 36588, 52993, 17397, 37680, 33970, 43831, 34057,
      14610, 4791, 48057, 34485, 26006, 31043, 17136, 39793, 10525, 2650,
      31989, 12497, 32596, 44259, 1554, 36993, 24133, 43598, 7711, 36455,
      31516, 8666>>,
    <<12396, 38840, 6913, 14969, 52614, 39106, 5326, 12826, 59326, 46902,
      34664, 39042, 1710, 14601, 14850, 60848, 63845, 32794, 46684, 34224,
      26979, 1135, 38611, 41769, 57396, 42650, 48780, 8470, 28297, 60402,
      52886, 24028>>,
    <<50068, 21142, 28022, 13411, 36328, 62222, 63672, 24505, 8717, 13172,
      23648, 38280, 25309, 21618, 13221, 42284, 15694, 2766, 35784, 43672,
      16648, 45549, 54711, 52385, 18632, 27938, 325, 14099, 59848, 25259,
      42089, 5054>>,
    <<18832, 34832, 10408, 48498, 36884, 59379, 38226, 49695, 13207, 21997,
      7579, 64505, 13566, 20854, 44555, 10000, 5204, 4442, 19832, 13411,
      61546, 61109, 52529, 9022, 48415, 63238, 16640, 36379, 59047, 64198,
      57830, 8161>>,
    <<13696, 57742, 46070, 26938, 11161, 45111, 44186, 57673, 20395, 63242,
      39696, 48536, 34398, 49822, 61048, 23152, 37867, 33910, 28982, 57537,
      57501, 23020, 54665, 34164, 63412, 4244, 51768, 46070, 63566, 22823,
      49533, 34104>>,
    <<59047, 33443, 24463, 42023, 52170, 49477, 55399, 49707, 6843, 6377,
      8554, 52749, 37435, 4598, 15599, 37570, 33792, 41823, 60755, 23972,
      1418, 10403, 49203, 23290, 49796, 12512, 14551, 41796, 2951, 32719,
      59316, 16537>>,
    <<61268, 26658, 23915, 43670, 34073, 16753, 39773, 2935, 56398, 43235,
      24334, 39317, 25999, 54053, 14757, 48557, 40612, 29258, 18595, 49173,
      50496, 31839, 21699, 37095, 59321, 10560, 2078, 6509, 30596, 19665,
      5691, 16246>>,
    <<44372, 50717, 10811, 19952, 28750, 49817, 15431, 3009, 64430, 2363,
      38736, 59721, 35747, 38528, 33221, 15698, 53175, 26141, 38001, 4087,
      64901, 59740, 38763, 60182, 57703, 796, 50956, 26669, 46236, 60101,
      54014, 10780>>,
    <<16270, 61735, 7424, 64173, 21217, 27648, 41190, 16533, 46987, 3626,
      16465, 46855, 6132, 6362, 49770, 35617, 56176, 23371, 26022, 53461,
      62147, 61741, 60460, 65041, 31974, 26490, 54945, 61445, 45319, 28087,
      33019, 17444>>,
    <<14336, 28946, 41680, 50737, 61283, 31520, 65050, 57409, 8858, 14922,
      19625, 29574, 22744, 44150, 59082, 26692, 19773, 20445, 6408, 22773,
      27752, 49203, 48539, 37942, 42724, 15758, 34697, 14499, 64107, 21734,
      59643, 38080>>,
    <<1242, 64620, 24295, 25624, 23389, 58037, 7001, 44669, 64471, 45424,
      51973, 19136, 17524, 31612, 16525, 19329, 61410, 39165, 35023, 61183,
      35091, 56778, 42890, 44170, 10110, 64072, 47546, 61797, 16559, 35069,
      987, 23990>>,
    <<16462, 24166, 57643, 33472, 50487, 24375, 4376, 36022, 21975, 55807,
      45582, 6562, 60455, 14203, 10051, 14860, 2840, 51834, 25450, 50175,
      7828, 12006, 38830, 19862, 27171, 12366, 45490, 10660, 20594, 60153,
      35817, 22781>>,
    <<22375, 37311, 5932, 42757, 60866, 32020, 12044, 8724, 29390, 53889,
      34594, 18932, 25086, 11726, 13808, 14221, 29163, 11508, 55221, 23777,
      37588, 16733, 10054, 32861, 45905, 49714, 51633, 46615, 25537, 4982,
      40355, 64181>>,
    <<58101, 63088, 26299, 14010, 32079, 46085, 5783, 30920, 48554, 37986,
      32914, 26733, 53184, 38454, 19562, 29496, 50940, 60852, 51227, 52265,
      57773, 20906, 23059, 18272, 62535, 62451, 18104, 59871, 29284, 48829,
      42961, 17851>>,
    <<6090, 2393, 55178, 2627, 46291, 45169, 58662, 56823, 10394, 35388,
      7184, 37954, 14027, 57190, 35718, 24315, 9974, 34123, 4105, 58652,
      14249, 15318, 31083, 16856, 1030, 46216, 21252, 42090, 27250, 33439,
      55655, 8134>>,
    <<40936, 1536, 40833, 58871, 64404, 55275, 13028, 56204, 41947, 53092,
      62698, 5429, 7346, 10849, 31000, 932, 39523, 29342, 62412, 2110, 2984,
      9493, 55639, 55262, 15768, 49364, 24944, 4598, 13987, 17487, 10386,
      56745>>,
    <<53344, 30449, 53556, 39248, 12524, 45043, 7696, 49851, 57577, 53566,
      62973, 31031, 27583, 62475, 21541, 34772, 3328, 35552, 33745, 2362,
      64664, 3322, 53414, 39655, 23890, 57214, 5152, 63774, 18547, 53644,
      42116, 51586>>,
    <<53910, 725, 18974, 60999, 14101, 41524, 15250, 64604, 23848, 49166,
      37803, 65263, 63712, 61687, 42953, 51626, 17289, 18398, 4377, 6269,
      33194, 25907, 23742, 55956, 52824, 40118, 17275, 40530, 57722, 30274,
      4080, 7278>>,
    <<43614, 38710, 51760, 56065, 11946, 2792, 24277, 9954, 15750, 38202, 6,
      45047, 42773, 65418, 39419, 37886, 50437, 60154, 717, 12409, 21404,
      39199, 20338, 52689, 52434, 38501, 46497, 8861, 64621, 39596, 45067,
      8412>>,
    <<56142, 26973, 20911, 10713, 21082, 54618, 59376, 58459, 27708, 43227,
      40797, 35873, 5177, 46702, 59724, 65013, 43698, 16698, 19195, 64935,
      27179, 6900, 52222, 15626, 61780, 30277, 33358, 46660, 18522, 50235,
      61512, 39055>>,
    <<44819, 11730, 58102, 62994, 24694, 47355, 15585, 57061, 57750, 2536,
      6382, 27834, 3176, 29535, 13000, 45897, 28643, 22088, 33742, 57252,
      8159, 50128, 53696, 20376, 35297, 19425, 14637, 43341, 54004, 7307,
      8502, 42012>>,
    <<57974, 43899, 36862, 36215, 46316, 46588, 22789, 15393, 43028, 29924,
      65524, 21383, 23688, 36738, 57957, 50520, 34340, 53307, 24431, 20871,
      9838, 4414, 23497, 39290, 32225, 26741, 54086, 12899, 40470, 18353,
      46756, 13359>>,
    <<45743, 6155, 63184, 1435, 12781, 1374, 51865, 54429, 53952, 40513,
      15387, 56082, 11171, 14612, 12885, 9216, 22208, 52789, 30764, 18276,
      34563, 18193, 50732, 16007, 47816, 34717, 25510, 4198, 20271, 17571,
      45969, 64307>>,
    <<53097, 14226, 38809, 33152, 211, 7058, 6348, 47186, 33956, 26457,
      13819, 48149, 30725, 59953, 2994, 40882, 24908, 35379, 38802, 47639,
      27241, 1617, 36940, 61915, 44715, 8588, 5733, 41594, 39072, 44221,
      21286, 13401>>,
    <<60442, 59145, 38036, 49393, 22282, 39322, 25723, 50145, 8329, 45845,
      31091, 47960, 13833, 12875, 58979, 23400, 64370, 13771, 1454, 37563,
      63768, 2037, 3958, 63762, 23624, 40114, 62831, 26035, 35630, 32404,
      26415, 12820>>,
    <<10698, 33824, 33962, 59741, 16973, 33506, 52089, 39819, 22377, 50703,
      35858, 38393, 64101, 20608, 1177, 44459, 54519, 15679, 2426, 60836,
      50775, 16423, 60767, 42106, 4968, 40249, 42646, 22284, 9417, 18564,
      38122, 43543>>,
    <<63632, 50564, 30457, 14299, 29771, 38261, 43023, 51624, 37480, 50107,
      1906, 60142, 47437, 36650, 16008, 16807, 53368, 50272, 7186, 6642,
      20766, 51028, 61516, 42974, 15222, 62142, 58333, 40658, 49671, 21776,
      56587, 29550>>,
    <<11924, 22830, 24576, 16989, 25441, 63491, 20496, 31001, 34440, 33679,
      11021, 5432, 14562, 39885, 9578, 60250, 23420, 34694, 57892, 35627,
      3778, 3889, 3255, 45358, 45422, 63162, 51181, 44002, 18201, 39755,
      44250, 65499>>,
    <<25008, 16479, 51921, 16148, 64909, 1486, 31146, 39234, 33787, 10967,
      49668, 28255, 46623, 26690, 11224, 58093, 45415, 3520, 9696, 30046,
      52692, 43954, 16330, 17940, 18216, 26178, 18179, 20658, 58969, 16584,
      3347, 51096>>,
    <<14245, 1114, 7284, 20748, 63885, 57543, 10159, 36715, 39173, 15676,
      9121, 65389, 27774, 56865, 29057, 12196, 59876, 14790, 17158, 64865,
      25353, 40911, 56685, 38734, 28855, 7916, 27916, 11508, 39023, 11515,
      29005, 28604>>,
    <<49416, 22232, 33510, 47091, 48023, 56684, 11267, 57189, 29783, 2847,
      62060, 52459, 58804, 20222, 47681, 64363, 42504, 40953, 51870, 14581,
      41433, 36962, 24426, 55379, 51841, 31236, 55465, 11340, 55051, 53084,
      56934, 23182>>,
    <<25553, 10269, 45925, 40065, 28625, 37838, 39270, 9555, 13483, 17891,
      55406, 58751, 51602, 44023, 32188, 56820, 45448, 36517, 56312, 26836,
      23507, 47853, 8143, 9919, 22290, 13523, 20660, 19592, 16457, 52867,
      42632, 25909>>,
    <<42979, 53378, 25428, 5674, 53613, 54165, 31438, 29908, 15297, 41830,
      15035, 63012, 6369, 4648, 6228, 52560, 13247, 63780, 21786, 62524,
      1520, 48038, 36004, 59481, 37572, 53257, 52451, 35987, 43853, 29807,
      1049, 58812>>,
    <<48158, 61279, 56710, 55743, 63538, 8387, 61212, 56394, 22335, 3824,
      56416, 38484, 64353, 5975, 48690, 62096, 29926, 57683, 14032, 18514,
      3443, 3017, 17179, 41039, 61168, 35100, 16729, 59952, 13279, 7098,
      63468, 6848>>,
    <<28952, 3734, 22889, 11518, 18459, 1857, 48962, 32707, 13616, 15286,
      48236, 55858, 58316, 27846, 48377, 51617, 47956, 2729, 52531, 12784,
      8367, 7203, 41529, 18395, 19278, 48756, 33613, 1342, 2255, 9164, 30048,
      19254>>,
    <<12010, 62645, 47738, 8334, 42480, 48834, 53434, 22412, 65111, 51613,
      24234, 20043, 10274, 38053, 37843, 11194, 8017, 64285, 27291, 2963,
      6986, 38525, 51991, 10168, 41150, 64509, 24472, 1243, 6830, 16752,
      55499, 8597>>,
    <<48420, 4268, 7244, 64601, 31380, 52400, 23032, 6204, 18397, 35759,
      12677, 33596, 39035, 10547, 11234, 63923, 31959, 18415, 13399, 25763,
      6584, 60268, 54860, 32152, 20468, 62456, 4960, 37042, 59850, 56112,
      44519, 19412>>,
    <<4933, 56366, 62770, 63501, 48280, 40924, 23310, 65106, 28439, 58165,
      10600, 9003, 2266, 20019, 42666, 10252, 36842, 59555, 30406, 3989,
      38473, 33574, 37805, 37852, 22684, 27082, 54095, 60000, 3146, 30081,
      52298, 22418>>,
    <<42507, 53526, 46234, 34823, 33513, 8319, 47180, 24572, 61371, 42161,
      41584, 10533, 51512, 65330, 26012, 53325, 38563, 20525, 21675, 10384,
      62178, 49430, 39709, 47337, 61166, 21454, 35796, 15006, 57175, 11142,
      44309, 64444>>,
    <<60436, 50556, 54608, 42565, 3234, 21974, 13080, 44613, 32883, 29728,
      35643, 56648, 24388, 32255, 4385, 5782, 37994, 5199, 615, 41001, 64592,
      62050, 23827, 45648, 44084, 50893, 48810, 22451, 2677, 2589, 13851,
      19859>>,
    <<43829, 9841, 31987, 36838, 23676, 49206, 37976, 13105, 10300, 39782,
      44802, 57819, 16627, 21701, 54161, 61668, 4778, 139, 37096, 50333,
      63010, 35211, 61718, 30993, 17243, 50444, 54993, 30203, 18480, 2055,
      49490, 38906>>,
    <<32748, 4444, 27276, 25649, 33919, 52515, 62259, 20241, 2619, 37207,
      8807, 60304, 25175, 22707, 17806, 16895, 63979, 37409, 25588, 16431,
      17041, 47796, 30000, 63746, 6577, 45747, 58844, 20036, 65045, 55519,
      60947, 20945>>,
    <<14935, 11228, 42057, 11410, 30734, 19264, 52938, 52555, 8400, 1122,
      22519, 62178, 60007, 20565, 65117, 26605, 15235, 55457, 42517, 43036,
      19925, 7743, 2634, 24855, 49711, 39427, 24056, 16499, 6331, 1572,
      64987, 57227>>,
    <<11418, 38934, 35640, 829, 51017, 12524, 9974, 43964, 32828, 46072,
      60079, 26244, 55122, 46726, 3376, 41377, 25778, 40096, 46253, 2268,
      51461, 42799, 35845, 27023, 32513, 37717, 35897, 63454, 21295, 25803,
      30666, 30664>>,
    <<47465, 20459, 17388, 51646, 19945, 50600, 56693, 64433, 17009, 11779,
      36103, 30761, 52967, 16391, 12345, 42805, 48846, 1381, 22215, 59674,
      6345, 3067, 38376, 22759, 45682, 64129, 21410, 50193, 25490, 40281,
      33453, 33732>>,
    <<37705, 58278, 65477, 23751, 5520, 51079, 44555, 1383, 59744, 3236,
      35711, 36329, 48000, 27289, 1413, 39020, 13318, 17115, 10012, 33786,
      64015, 39784, 13701, 33503, 11204, 26696, 42792, 12445, 37867, 27010,
      35799, 53186>>,
    <<50848, 3778, 2476, 49954, 55250, 40460, 34052, 6556, 46239, 43626,
      57055, 22198, 26700, 40759, 19231, 25673, 27725, 64263, 6817, 47319,
      53858, 4382, 17089, 48537, 45578, 30557, 48730, 61205, 5132, 14068,
      57704, 61687>>,
    <<22846, 5296, 46114, 5513, 7890, 31255, 32605, 24878, 41041, 47912,
      62187, 38282, 17422, 21369, 1718, 62436, 13774, 57434, 5203, 34848,
      60096, 64188, 57262, 13551, 9108, 1081, 36490, 22122, 10133, 57069,
      61315, 9859>>,
    <<40665, 58665, 9332, 26654, 64794, 19630, 50088, 50457, 20911, 10674,
      53329, 31779, 9650, 14004, 31473, 36621, 34048, 49656, 19717, 33227,
      19529, 61650, 50187, 2563, 10887, 55655, 36195, 56921, 12296, 54590,
      62425, 29058>>,
    <<17887, 29835, 23505, 30642, 24905, 15915, 30598, 61065, 26025, 33581,
      62651, 49919, 49691, 21977, 55725, 11724, 59064, 2910, 13949, 35569,
      29170, 61337, 25246, 13967, 63673, 32487, 47255, 3099, 15089, 46144,
      21145, 37046>>,
    <<48063, 55151, 1831, 56484, 19324, 28787, 49878, 17702, 26943, 11741,
      24123, 47635, 43566, 8039, 31434, 23127, 12871, 31643, 46605, 22239,
      49042, 33914, 17059, 61019, 1143, 13230, 25153, 4275, 62820, 28094,
      40096, 61958>>,
    <<54678, 12567, 9019, 48126, 43637, 19842, 22116, 59001, 53238, 2271,
      61237, 37892, 4776, 32121, 1769, 44935, 32072, 33312, 29949, 61759,
      24510, 62560, 29456, 6437, 31986, 4210, 58056, 39212, 5474, 3847,
      34243, 65427>>,
    <<17350, 41407, 19290, 25589, 37114, 4573, 1506, 6181, 10441, 55118,
      39016, 3526, 25669, 21885, 51135, 10597, 9829, 25722, 53109, 27886,
      20338, 21679, 48510, 58151, 36535, 26303, 10605, 59804, 32295, 29471,
      37905, 32052>>,
    <<62650, 28099, 3475, 49773, 63515, 64900, 48358, 16292, 23335, 63408,
      65438, 64566, 39232, 34475, 7953, 36256, 57190, 23626, 13037, 65166,
      649, 48679, 23143, 37263, 633, 25951, 47096, 46121, 63586, 51568,
      60976, 34682>>,
    <<48549, 33750, 25972, 36423, 61003, 52667, 45320, 55599, 15324, 59251,
      5470, 6840, 41870, 8526, 34208, 31875, 19648, 15647, 32717, 54481, 517,
      18133, 59365, 30688, 9096, 41187, 40760, 50492, 6749, 8164, 5752, 29759>>,
    <<22783, 57342, 21595, 30043, 61574, 25480, 3491, 19036, 4356, 56847,
      32618, 9005, 4843, 53899, 6470, 9566, 56263, 18042, 42762, 35256,
      46515, 30098, 20542, 43568, 44641, 21397, 42819, 53746, 60316, 44126,
      36200, 38027>>,
    <<22563, 51668, 712, 12281, 3179, 18413, 62182, 65249, 41943, 45858,
      40365, 47528, 28064, 44686, 30305, 47904, 48110, 39056, 17689, 17659,
      60578, 43585, 40233, 6261, 49738, 8628, 64761, 63703, 57635, 44446,
      12090, 43145>>,
    <<15569, 13542, 7567, 31705, 34118, 61428, 34999, 24823, 42736, 36674,
      49545, 52283, 32218, 35264, 46424, 16691, 2647, 18583, 25934, 54050,
      43224, 64971, 33142, 21093, 12379, 20410, 59772, 46471, 35619, 6192,
      44249, 8791>>,
    <<57223, 1463, 22079, 54364, 7216, 10652, 20626, 23012, 61174, 42265,
      36222, 15277, 49909, 64746, 19366, 9894, 64474, 24726, 39259, 63140,
      62830, 47023, 49903, 16159, 22659, 63073, 43083, 59894, 65305, 37334,
      28249, 38903>>,
    <<20905, 44113, 3364, 58054, 26114, 2802, 38786, 38597, 49113, 12573,
      13083, 31241, 3786, 11075, 44645, 65150, 37943, 2384, 3158, 28204,
      61014, 13640, 28301, 3559, 14895, 11214, 9760, 60253, 8083, 41920,
      6967, 35262>>,
    <<45869, 6602, 20357, 16337, 19601, 57328, 8075, 4926, 35147, 39090,
      63822, 40383, 14042, 41265, 62904, 12781, 29025, 1117, 38335, 56414,
      28045, 55356, 32810, 10768, 41690, 35084, 16383, 12362, 31825, 37696,
      30528, 26761>>,
    <<41478, 27698, 4339, 39806, 49998, 26851, 48026, 12486, 12875, 5731,
      1393, 13162, 32490, 2397, 6589, 53719, 10736, 30176, 25874, 21297,
      5678, 45397, 34104, 3284, 49064, 51266, 220, 20193, 65429, 64521,
      61189, 894>>,
    <<29765, 49407, 51626, 56630, 9654, 60760, 64024, 31661, 13240, 39309,
      58501, 44767, 29000, 52244, 58152, 10920, 57849, 42801, 8602, 59610,
      30552, 18884, 54669, 59354, 42302, 16546, 14330, 44219, 1988, 49923,
      43181, 15512>>,
    <<3369, 38057, 25924, 15081, 54995, 48965, 28997, 25246, 49598, 14091,
      21852, 55850, 60453, 44648, 50183, 28976, 46017, 528, 20699, 9099,
      40652, 65408, 4769, 26788, 7592, 9073, 41168, 27778, 10603, 61627,
      42134, 27218>>,
    <<28672, 63485, 56449, 54971, 12946, 14393, 41443, 29412, 38791, 38202,
      42654, 33103, 24537, 33600, 24958, 37913, 52025, 30277, 40539, 3772,
      11903, 11599, 47012, 15611, 38160, 25486, 27486, 46272, 2455, 29893,
      45493, 63278>>,
    <<45285, 59134, 1873, 41142, 50327, 58187, 32958, 47447, 39267, 38975,
      28471, 53194, 54276, 49495, 42633, 33426, 11591, 19025, 41799, 58859,
      51880, 65164, 35199, 9896, 33667, 38309, 44239, 37193, 43920, 58109,
      46606, 9656>>,
    <<34543, 3920, 41982, 63224, 61973, 3327, 407, 23478, 36738, 51198,
      29293, 11325, 32905, 38493, 33564, 19636, 63370, 61232, 64208, 13135,
      4033, 42709, 25938, 2423, 782, 3676, 3760, 27535, 62710, 22627, 26712,
      24255>>,
    <<2829, 28705, 30020, 34827, 20453, 32044, 10124, 19255, 12904, 45335,
      60383, 40189, 26842, 55399, 42725, 33013, 1375, 45059, 5499, 25894,
      19082, 55319, 40064, 50540, 59192, 14816, 24731, 12053, 52406, 15121,
      5695, 64051>>,
    <<12647, 465, 23870, 34083, 22406, 22602, 2737, 21216, 65046, 28063,
      25203, 31076, 15953, 7826, 27652, 24327, 65064, 64552, 23314, 38210,
      6016, 54494, 29084, 60234, 12880, 45520, 47357, 4410, 22507, 19409,
      23011, 23748>>,
    <<48034, 19424, 43900, 30982, 15136, 30693, 21139, 50102, 57290, 31278,
      39587, 57321, 12550, 31666, 29033, 37486, 27280, 5505, 4785, 19149,
      39134, 31272, 2171, 38131, 32169, 54236, 56406, 20001, 56895, 41143,
      46207, 27404>>,
    <<39571, 52673, 9572, 61086, 56801, 5605, 51836, 52877, 60274, 8206,
      7337, 50661, 50368, 47099, 56318, 28384, 9894, 34341, 24214, 39563,
      23516, 9779, 45875, 48227, 40781, 3303, 44203, 9346, 50881, 17123,
      44855, 62550>>,
    <<62141, 5407, 6293, 24821, 24525, 14137, 58745, 43146, 4529, 54477,
      41578, 10638, 30456, 42164, 42835, 25832, 55579, 33749, 60828, 19316,
      40954, 47595, 57028, 51052, 2863, 40030, 61907, 47746, 5692, 24731,
      61816, 12842>>,
    <<58967, 34534, 36263, 20805, 26804, 38757, 39139, 58561, 3322, 57082,
      54451, 21708, 29267, 62395, 33600, 35456, 45127, 3441, 61988, 61584,
      47881, 35667, 59331, 7057, 64694, 61745, 41400, 62108, 38364, 15814,
      40295, 51523>>,
    <<59403, 37183, 43923, 7245, 64519, 42355, 63571, 8536, 55979, 17257,
      12227, 9974, 25975, 65471, 49869, 34118, 5303, 62649, 1066, 31902,
      59820, 28341, 56722, 10731, 56645, 8073, 43287, 34483, 1967, 30613,
      57585, 55824>>,
    <<25165, 36918, 48975, 17090, 18252, 59588, 64559, 41917, 8212, 44717,
      32602, 11443, 12629, 49116, 44782, 44041, 48575, 50235, 63908, 33703,
      57961, 28061, 58509, 46408, 35151, 106, 63570, 58811, 16685, 26695,
      53577, 55896>>,
    <<5732, 27669, 64769, 9803, 41777, 62594, 53569, 37323, 45341, 26940,
      32358, 41436, 63765, 19017, 25564, 11987, 8208, 29945, 845, 33804,
      44733, 21507, 51485, 18544, 48029, 16713, 3045, 27221, 19513, 24490,
      4608, 26411>>,
    <<49613, 34239, 25236, 38148, 47093, 48314, 51421, 16041, 46449, 52578,
      24434, 63396, 31115, 52797, 16627, 54610, 23496, 30608, 25848, 17947,
      60098, 14853, 54175, 8253, 9558, 49235, 23137, 23419, 39001, 52619,
      41458, 57151>>,
    <<42829, 57187, 23688, 37180, 14682, 23546, 52592, 59453, 59598, 28456,
      26711, 41642, 55922, 32927, 31760, 11495, 42056, 22051, 18415, 13361,
      64348, 4295, 4092, 13545, 57832, 52660, 11769, 22164, 767, 26751, 4419,
      37157>>,
    <<8217, 53054, 43366, 2883, 64801, 29078, 48295, 62734, 39373, 27990,
      17467, 29162, 50692, 62109, 30304, 43838, 53750, 31858, 34447, 55922,
      10847, 50591, 47237, 6992, 25340, 54098, 24747, 45588, 57778, 48541,
      6154, 16843>>,
    <<62791, 7261, 40618, 42226, 43669, 46317, 31461, 40956, 53399, 28785,
      28325, 21759, 24399, 47160, 17320, 151, 31846, 20569, 62859, 65450,
      38688, 15, 13154, 6110, 37307, 46267, 15476, 21124, 11992, 39023,
      57690, 27142>>,
    <<21779, 7308, 47727, 12409, 32868, 15954, 61654, 39628, 33151, 48942,
      40450, 36673, 2653, 3378, 51307, 45901, 31601, 60959, 12939, 13452,
      14522, 22585, 48521, 29457, 23401, 48492, 59230, 40622, 15612, 1641,
      14763, 3552>>,
    <<32952, 17861, 8984, 48448, 32974, 49945, 42376, 19219, 11218, 39955,
      48260, 51710, 52699, 36040, 14945, 6809, 24267, 33486, 15128, 52992,
      34684, 5978, 5297, 30260, 34400, 36745, 26604, 27551, 9398, 4180, 3928,
      57317>>,
    <<11505, 1598, 37123, 15987, 36689, 35639, 20475, 61850, 18584, 18755,
      285, 6663, 64189, 53459, 20287, 20291, 42800, 11878, 37607, 31290,
      30402, 8939, 18339, 19117, 17233, 30351, 10764, 8415, 28432, 35789,
      51034, 35746>>,
    <<33033, 54462, 6348, 44015, 64251, 30815, 4443, 31928, 1687, 58140,
      20291, 18533, 3268, 12724, 21061, 14284, 4481, 46718, 38892, 14024,
      31776, 54404, 36366, 48738, 58102, 8771, 26640, 21267, 32687, 53799,
      34452, 49109>>,
    <<15938, 63345, 5420, 29886, 49245, 26774, 53575, 860, 38409, 60101,
      15107, 13904, 3992, 47897, 63899, 24771, 51473, 24063, 36635, 29756,
      42237, 1096, 3782, 34241, 48081, 17473, 33978, 58782, 22050, 34354,
      19731, 40630>>,
    <<17449, 61045, 39254, 18579, 64246, 7868, 41841, 49491, 2530, 59847,
      19883, 293, 15810, 13500, 20346, 44885, 2871, 12726, 633, 32062, 60249,
      17529, 2671, 20925, 42342, 23617, 42983, 65094, 58947, 41422, 50949,
      49395>>,
    <<54873, 37723, 12272, 26914, 21563, 16195, 29161, 13583, 47560, 62226,
      5668, 32003, 11841, 32664, 62873, 47168, 38984, 64887, 4005, 3526,
      10907, 56076, 43920, 58066, 50255, 15180, 52382, 16306, 40627, 29556,
      25336, 7279>>,
    <<51191, 45986, 62174, 65246, 52099, 58470, 17835, 58611, 23877, 40387,
      51391, 38576, 57029, 27577, 32902, 38518, 56150, 63294, 55835, 27597,
      25060, 40163, 18914, 30216, 64326, 46305, 45583, 38989, 1869, 50678,
      19235, 21081>>,
    <<15115, 56503, 13831, 53117, 49173, 37256, 19332, 60891, 11029, 14804,
      65121, 11016, 61550, 28240, 33102, 59826, 58865, 53152, 53372, 56145,
      3412, 41490, 600, 33157, 35985, 52724, 48733, 21054, 21058, 61997,
      47685, 54751>>,
    <<54810, 29835, 1084, 14287, 32165, 65504, 38746, 46305, 34993, 24836,
      10721, 9602, 60995, 62320, 14634, 35868, 6633, 11059, 29397, 36966,
      41951, 22810, 44002, 21738, 60120, 15446, 59725, 4872, 37098, 63017,
      31253, 48953>>,
    <<9700, 44305, 41963, 36462, 18210, 55944, 34430, 64468, 31541, 2861,
      44474, 29248, 35174, 38893, 2293, 54254, 30775, 42936, 32693, 37447,
      1238, 16774, 33711, 51217, 55354, 50928, 40121, 57380, 54314, 4237,
      28690, 55948>>,
    <<59940, 10990, 57225, 45897, 34645, 3398, 4167, 38788, 50193, 26193,
      25640, 8692, 2336, 2723, 45104, 40470, 23851, 44057, 13133, 41225,
      16842, 56063, 56463, 22724, 20070, 19345, 55596, 24268, 57114, 37892,
      15157, 19205>>,
    <<59162, 55209, 32093, 40034, 28222, 39621, 58011, 4738, 31047, 53430,
      13194, 51170, 60881, 44229, 33159, 58110, 32351, 50875, 49847, 19946,
      4713, 15598, 57494, 60971, 60904, 42403, 19164, 53511, 43503, 2280,
      9792, 27881>>,
    <<5056, 19882, 25884, 50401, 15019, 25892, 62687, 4643, 53239, 31531,
      35466, 51633, 7330, 18167, 1504, 21285, 50800, 63390, 52150, 12094,
      31413, 38837, 64250, 20871, 5311, 53576, 5194, 4726, 39551, 43673,
      49740, 37394>>,
    <<15821, 12290, 20261, 27836, 15561, 61784, 54916, 27354, 45854, 13643,
      58118, 3387, 51745, 37719, 65095, 53418, 48199, 32202, 9107, 44966,
      14795, 64422, 37365, 23007, 25372, 6469, 48129, 28139, 51282, 46852,
      61977, 27919>>,
    <<9405, 60346, 48734, 62704, 59023, 2063, 54990, 64930, 22878, 19274,
      55922, 49253, 10631, 61519, 60918, 39577, 45197, 24059, 33115, 59551,
      34258, 3489, 8594, 10325, 36007, 42807, 21868, 18647, 37749, 41459,
      5925, 31740>>,
    <<60513, 9006, 1191, 62475, 15045, 54745, 48935, 36444, 7306, 5655,
      18229, 47737, 55804, 4823, 60811, 868, 33937, 9493, 51042, 37263,
      17068, 20754, 88, 57430, 55433, 33963, 43207, 12578, 39542, 4254,
      57639, 63100>>,
    <<28497, 12302, 37515, 43041, 23770, 28564, 20649, 62177, 64749, 23250,
      357, 5539, 55025, 57523, 64414, 36542, 56205, 43310, 62768, 28607,
      5004, 35546, 23316, 46888, 52943, 19106, 14053, 62725, 25901, 54318,
      28664, 14847>>,
    <<2789, 13521, 28986, 10186, 3722, 48214, 243, 41310, 45603, 27079,
      21740, 9975, 54081, 49557, 29728, 8990, 54540, 49676, 7352, 56675,
      58589, 12333, 55922, 35652, 35061, 5238, 32094, 53495, 46062, 4906,
      32137, 31917>>,
    <<12785, 45327, 64852, 19744, 62401, 55313, 40585, 61362, 22370, 61350,
      18770, 27650, 52599, 1497, 38150, 18628, 21465, 38882, 24539, 35340,
      52336, 13796, 26314, 17884, 46814, 39414, 17773, 23594, 57512, 5054,
      44753, 19013>>,
    <<48825, 48802, 44952, 23036, 58136, 7081, 22368, 39376, 46945, 10562,
      26833, 58007, 7817, 45050, 5272, 63805, 6438, 36477, 9769, 57428,
      31238, 46802, 52862, 34084, 55960, 60301, 6964, 49809, 64590, 56838,
      61352, 16931>>,
    <<38141, 42895, 21225, 245, 39042, 9566, 63716, 38048, 43127, 64945,
      47241, 59362, 6667, 36801, 33429, 12672, 29226, 36597, 46988, 36786,
      48796, 12131, 64736, 53062, 12685, 11270, 58631, 33995, 4536, 12027,
      4049, 6594>>,
    <<3174, 19635, 4629, 43435, 48946, 52712, 40615, 48858, 64902, 56042,
      49291, 28380, 26314, 17276, 15747, 7730, 10019, 32573, 36167, 46498,
      55347, 42092, 55661, 29155, 53007, 22305, 20421, 13973, 22247, 28502,
      22826, 37649>>,
    <<9894, 47307, 19814, 44678, 54071, 36707, 30546, 51125, 33445, 40216,
      8569, 62275, 62159, 30026, 12140, 44717, 26595, 61040, 904, 852, 60955,
      14243, 51034, 38220, 57085, 44176, 29926, 36430, 12818, 22942, 12149,
      3448>>,
    <<64435, 34387, 10974, 49477, 29979, 55481, 30989, 38967, 35013, 63719,
      11095, 45127, 14464, 65486, 51246, 8500, 5043, 17303, 22946, 37988,
      37853, 36903, 58654, 55847, 48069, 33142, 31069, 47293, 3518, 39714,
      29158, 2970>>,
    <<33572, 17789, 39164, 35852, 29682, 25447, 49991, 26089, 10674, 55259,
      61621, 30821, 39817, 36458, 12878, 44842, 65263, 40185, 6369, 23386,
      9114, 34843, 36918, 22946, 57176, 12496, 53999, 24568, 63367, 26364,
      27381, 26805>>,
    <<14125, 25686, 51162, 64624, 61184, 32607, 18386, 24876, 22468, 53276,
      58909, 10965, 5518, 41725, 54125, 64710, 48164, 64477, 54785, 610,
      57453, 33859, 59080, 40599, 34217, 10209, 34486, 49852, 56568, 32199,
      58937, 44447>>,
    <<51301, 48280, 3238, 17475, 51430, 1582, 18002, 35352, 7070, 53563,
      61234, 42287, 9386, 41391, 1390, 3690, 38673, 37011, 63381, 31854,
      29810, 15926, 43236, 25084, 44798, 49006, 45766, 35691, 49193, 4742,
      64093, 34343>>,
    <<14871, 7596, 5718, 51102, 19546, 53102, 39053, 22035, 569, 11975,
      25152, 28667, 43859, 20116, 46794, 27991, 46576, 55837, 46362, 27418,
      22131, 9676, 13647, 33863, 6710, 47759, 54923, 3047, 53132, 27110,
      56018, 63174>>,
    <<27559, 55290, 7719, 4089, 20848, 48397, 21810, 4046, 12, 43140, 54237,
      43703, 24360, 15663, 1364, 25788, 64314, 65230, 61333, 65306, 7616,
      53071, 36327, 16820, 34467, 42757, 6747, 54136, 25246, 6292, 40835,
      27091>>,
    <<10846, 15626, 1727, 14030, 59118, 50272, 18467, 22253, 25099, 60853,
      34620, 33923, 55531, 35430, 5327, 23505, 46396, 9601, 19009, 16083,
      51021, 32582, 24424, 51090, 51704, 18584, 32886, 27767, 58720, 32221,
      50083, 57638>>,
    <<14362, 857, 27997, 12825, 23085, 62031, 60559, 11189, 10955, 35085,
      8635, 55654, 53538, 53972, 63002, 44307, 20313, 7724, 29613, 44258,
      50430, 22897, 12992, 28849, 4599, 13852, 61411, 29100, 39124, 32247,
      29236, 61487>>,
    <<22430, 9819, 39689, 5755, 3464, 6768, 44774, 20195, 48672, 6912, 16540,
      28764, 2541, 44693, 44516, 20004, 18103, 12021, 56998, 8405, 20395,
      10661, 61268, 23131, 19810, 61620, 30834, 61935, 55885, 48961, 28936,
      28590>>,
    <<21161, 32365, 33502, 27408, 7126, 32761, 7035, 21413, 2311, 3963,
      22945, 50935, 21698, 31983, 40070, 64637, 564, 2385, 4102, 62095,
      34090, 60265, 24062, 40768, 3438, 14941, 37502, 56322, 28544, 58089,
      13055, 14056>>,
    <<63966, 57626, 9345, 6195, 26105, 58978, 55497, 64441, 116, 47777,
      44497, 1647, 14844, 47987, 30604, 53489, 779, 1837, 38545, 29921,
      26661, 39280, 29123, 49093, 57704, 9753, 32900, 38355, 43280, 33905,
      38656, 20581>>,
    <<58356, 60966, 4249, 43436, 45832, 34060, 10448, 50519, 48105, 9739,
      64656, 7987, 1283, 29869, 4628, 62013, 5077, 40389, 10890, 19113,
      29146, 24556, 31627, 32842, 9264, 30899, 19306, 28817, 47341, 19318,
      18129, 43727>>,
    <<19433, 60743, 48113, 30300, 6789, 23751, 29965, 44368, 21111, 4401,
      50456, 7456, 18390, 54466, 1332, 21999, 10282, 48419, 34742, 50096,
      29022, 21097, 50840, 8081, 24312, 23123, 52787, 34898, 18114, 24148,
      6747, 11133>>
  >>
----------------------------------------------------------------------------
(* Properties of the incremental hashers                                   *)

\* The bytes of a sequence of 16-bit halves, high byte first.
RECURSIVE BytesOfHalves(_)
BytesOfHalves(hs) ==
  IF hs = <<>> THEN <<>>
  ELSE <<hs[1] \div 256, hs[1] % 256>> \o BytesOfHalves(Tail(hs))

\* The k-byte big-endian encoding of the natural number n.
RECURSIVE BigEndian(_, _)
BigEndian(n, k) ==
  IF k = 0 THEN <<>> ELSE BigEndian(n \div 256, k - 1) \o <<n % 256>>

\* The concatenation of a sequence of blocks.
RECURSIVE Flatten(_)
Flatten(bs) == IF bs = <<>> THEN <<>> ELSE bs[1] \o Flatten(Tail(bs))

\* The blocks finalize handed to the transform, concatenated.
PaddedTail == Flatten(SubSeq(hasher.blocks, Len(pre.blocks) + 1, Len(hasher.blocks)))

\* The number of transforms finalize made.
FinalizeTransforms == Len(hasher.blocks) - Len(pre.blocks)

\* The residual length r: the bytes of the message past its last whole block.
Residual == Len(fed) % BlockSize(alg)

\* C1: whatever the split of the message into update calls (with empty chunks,
\* with an empty message), the digest finalize returns is the digest of a
\* fresh hasher given the whole message in one update call; for Sha256 and
\* for Sha512.
ChunkingInvariance ==
  pc = "finalized" => digest = FinalizeOf(alg, UpdateOf(alg, New(alg), fed))

\* Three update calls; bytes of an earlier block still lie in the buffer
\* behind the residual bytes, so the buffer was filled by one call, topped up
\* and flushed by a later one, and then took the rest of that call's data.
ChunkingInvarianceWitness ==
  /\ pc = "finalized"
  /\ updates = 3
  /\ Len(pre.blocks) >= 1
  /\ pre.buffer_len > 0
  /\ pre.buffer[pre.buffer_len + 1] # 0

Sha256EmptyDigest ==
  BytesOfHalves(<<
    \he3b0, \hc442, \h98fc, \h1c14, \h9afb, \hf4c8, \h996f, \hb924,
    \h27ae, \h41e4, \h649b, \h934c, \ha495, \h991b, \h7852, \hb855>>)

Sha256AbcDigest ==
  BytesOfHalves(<<
    \hba78, \h16bf, \h8f01, \hcfea, \h4141, \h40de, \h5dae, \h2223,
    \hb003, \h61a3, \h9617, \h7a9c, \hb410, \hff61, \hf200, \h15ad>>)

\* C2: Sha256::new, update(S), finalize returns the FIPS 180-4 SHA-256 digest
\* of S, for every message S the caller feeds; the empty message gives
\* e3b0c442...7852b855 and "abc" gives ba7816bf...f20015ad.
Sha256MatchesStandard ==
  pc = "finalized" /\ alg = "sha256" =>
    /\ digest = BytesOfHalves(Sha256Standard[Len(fed) + 1])
    /\ fed = <<>> => digest = Sha256EmptyDigest
    /\ fed = <<97, 98, 99>> => digest = Sha256AbcDigest

\* "abc" hashed by Sha256.
Sha256MatchesStandardWitness ==
  pc = "finalized" /\ alg = "sha256" /\ fed = <<97, 98, 99>> /\ Len(digest) = 32

Sha512EmptyDigest ==
  BytesOfHalves(<<
    \hcf83, \he135, \h7eef, \hb8bd, \hf154, \h2850, \hd66d, \h8007,
    \hd620, \he405, \h0b57, \h15dc, \h83f4, \ha921, \hd36c, \he9ce,
    \h47d0, \hd13c, \h5d85, \hf2b0, \hff83, \h18d2, \h877e, \hec2f,
    \h63b9, \h31bd, \h4741, \h7a81, \ha538, \h327a, \hf927, \hda3e>>)

Sha512AbcDigest ==
  BytesOfHalves(<<
    \hddaf, \h35a1, \h9361, \h7aba, \hcc41, \h7349, \hae20, \h4131,
    \h12e6, \hfa4e, \h89a9, \h7ea2, \h0a9e, \heee6, \h4b55, \hd39a,
    \h2192, \h992a, \h274f, \hc1a8, \h36ba, \h3c23, \ha3fe, \hebbd,
    \h454d, \h4423, \h643c, \he80e, \h2a9a, \hc94f, \ha54c, \ha49f>>)

\* C3: Sha512::new, update(S), finalize returns the FIPS 180-4 SHA-512 digest
\* of S, for every message S the caller feeds; the empty message and "abc"
\* give the 64 bytes the two unit tests assert.
Sha512MatchesStandard ==
  pc = "finalized" /\ alg = "sha512" =>
    /\ digest = BytesOfHalves(Sha512Standard[Len(fed) + 1])
    /\ fed = <<>> => digest = Sha512EmptyDigest
    /\ fed = <<97, 98, 99>> => digest = Sha512AbcDigest

\* "abc" hashed by Sha512.
Sha512MatchesStandardWitness ==
  pc = "finalized" /\ alg = "sha512" /\ fed = <<97, 98, 99>> /\ Len(digest) = 64

\* The digest of the empty input as the specification prints it: it ends
\* a5388320 a927da3e where the standard digest ends a538327a f927da3e.
Sha512EmptyDigestAsSpecified ==
  BytesOfHalves(<<
    \hcf83, \he135, \h7eef, \hb8bd, \hf154, \h2850, \hd66d, \h8007,
    \hd620, \he405, \h0b57, \h15dc, \h83f4, \ha921, \hd36c, \he9ce,
    \h47d0, \hd13c, \h5d85, \hf2b0, \hff83, \h18d2, \h877e, \hec2f,
    \h63b9, \h31bd, \h4741, \h7a81, \ha538, \h8320, \ha927, \hda3e>>)

\* C4 (as amended): the SHA-512 digest the hasher returns for the empty input
\* is cf83e135...47417a81 a538327a f927da3e, the standard digest.
Sha512EmptyInput ==
  pc = "finalized" /\ alg = "sha512" /\ fed = <<>> => digest = Sha512EmptyDigest

\* The empty input hashed by Sha512, through one empty update or none.
Sha512EmptyInputWitness ==
  pc = "finalized" /\ alg = "sha512" /\ fed = <<>> /\ Len(digest) = 64

\* C4 (as stated): the SHA-512 digest the hasher returns for the empty input
\* is cf83e135...47417a81 a5388320 a927da3e.
Sha512EmptyInputAsSpecified ==
  pc = "finalized" /\ alg = "sha512" /\ fed = <<>> =>
    digest = Sha512EmptyDigestAsSpecified

\* C9: with r residual bytes at entry, finalize invokes the transform exactly
\* twice when r + 1 > block_size - length_field_size (r >= 56 for SHA-256,
\* r >= 112 for SHA-512) and exactly once otherwise; SHA-256 messages of 55,
\* 64 and 65 bytes take one transform, of 56 and 63 bytes take two.
FinalizeBoundary ==
  pc = "finalized" =>
    /\ pre.buffer_len = Residual
    /\ FinalizeTransforms =
         IF Residual + 1 > BlockSize(alg) - LengthFieldSize(alg) THEN 2 ELSE 1
    /\ FinalizeTransforms = 2 <=> Residual >= (IF alg = "sha256" THEN 56 ELSE 112)
    /\ alg = "sha256" /\ Len(fed) \in {55, 64, 65} => FinalizeTransforms = 1
    /\ alg = "sha256" /\ Len(fed) \in {56, 63} => FinalizeTransforms = 2

\* A 56-byte SHA-256 message: the first length that needs the second block.
FinalizeBoundaryWitness ==
  pc = "finalized" /\ alg = "sha256" /\ Len(fed) = 56 /\ FinalizeTransforms = 2

\* C10: the bytes finalize feeds to the transform are the residual bytes,
\* then one 0x80 byte, then only zero bytes, then the big-endian total bit
\* length in the last 8 (SHA-256) or 16 (SHA-512) bytes of the last block: no
\* byte an earlier block left in the buffer appears, and the length of the
\* padded stream is a multiple of the block size.
PaddingLayout ==
  pc = "finalized" =>
    /\ Len(PaddedTail) % BlockSize(alg) = 0
    /\ Len(PaddedTail) >= Residual + 1 + LengthFieldSize(alg)
    /\ (Len(fed) - Residual + Len(PaddedTail)) % BlockSize(alg) = 0
    /\ PaddedTail =
         SubSeq(fed, Len(fed) - Residual + 1, Len(fed))
         \o <<128>>
         \o Zeros(Len(PaddedTail) - Residual - 1 - LengthFieldSize(alg))
         \o BigEndian(8 * Len(fed), LengthFieldSize(alg))

\* finalize entered with non-zero bytes of an earlier block behind the
\* residual bytes, on the two-block path.
PaddingLayoutWitness ==
  /\ pc = "finalized"
  /\ FinalizeTransforms = 2
  /\ Len(pre.blocks) >= 1
  /\ pre.buffer_len + 2 <= BlockSize(alg)
  /\ \A i \in (pre.buffer_len + 2)..BlockSize(alg) : pre.buffer[i] # 0

----------------------------------------------------------------------------
(* Invariants of the hasher between calls                                  *)

\* C11: after new() and after every update call, whatever the chunk sizes,
\* 0 <= buffer_len < block size (64 for Sha256, 128 for Sha512): the buffer
\* holds exactly the bytes past the last whole block of the message, and
\* every whole block has been given to the transform.
ResidualBufferInvariant ==
  pc = "open" =>
    /\ hasher.buffer_len \in 0..(BlockSize(alg) - 1)
    /\ hasher.buffer_len = Len(fed) % BlockSize(alg)
    /\ Len(hasher.blocks) = Len(fed) \div BlockSize(alg)

\* The second update call topped the buffer up to its last byte, and the
\* full buffer was flushed at once: the buffer is empty again.
ResidualBufferInvariantWitness ==
  /\ pc = "open"
  /\ updates = 2
  /\ Len(fed) = BlockSize(alg)
  /\ hasher.buffer_len = 0
  /\ hasher.buffer[BlockSize(alg)] # 0
  /\ Len(hasher.blocks) = 1

\* C12: every update(data) adds exactly len(data) to total_len, so after any
\* sequence of update calls total_len is the number of bytes fed; finalize
\* leaves the count as it found it (no padding byte is counted), and the
\* length field it writes is 8 times that count.
TotalLengthAccounting ==
  /\ pc = "open" =>
       to_be_bytes(hasher.total_len) = BigEndian(Len(fed), LengthFieldSize(alg))
  /\ pc = "finalized" =>
       /\ to_be_bytes(pre.total_len) = BigEndian(Len(fed), LengthFieldSize(alg))
       /\ hasher.total_len = pre.total_len
       /\ SubSeq(PaddedTail, Len(PaddedTail) - LengthFieldSize(alg) + 1, Len(PaddedTail))
            = BigEndian(8 * Len(fed), LengthFieldSize(alg))

\* Three update calls of more than a block in all, and a finalize whose
\* padding took a block of its own.
TotalLengthAccountingWitness ==
  /\ pc = "finalized"
  /\ updates = 3
  /\ Len(fed) > BlockSize(alg)
  /\ FinalizeTransforms = 2

\* The total input is within the lengths the accounting is specified for: up
\* to 2^64 bytes for Sha256, up to 2^128 bits for Sha512.
WithinSpecifiedLength ==
  IF alg = "sha256" THEN WideLeq(absorbed, PowerOfTwo(64))
                    ELSE WideLeq(wrapping_mul(absorbed, 8), PowerOfTwo(128))

\* C13: for every total input length up to 2^64 bytes (Sha256) and up to
\* 2^128 bits (Sha512) the length accounting does not overflow: no call
\* panics on the counter, total_len is the number of bytes given to update,
\* and the length field finalize writes is 8 times that number.
LengthAccountingNoOverflow ==
  WithinSpecifiedLength =>
    /\ pc # "panicked"
    /\ Zeros(9 - TotalLenLimbs(alg))
         \o (IF pc = "finalized" THEN pre.total_len ELSE hasher.total_len)
         = absorbed
    /\ pc = "finalized" =>
         Zeros(18 - LengthFieldSize(alg))
           \o SubSeq(PaddedTail, Len(PaddedTail) - LengthFieldSize(alg) + 1, Len(PaddedTail))
         = to_be_bytes(wrapping_mul(absorbed, 8))

\* C14: a hasher is Open from new() until finalize; finalize moves it to
\* Finalized and returns the digest; every update and every finalize starts
\* from Open, so finalize happens at most once per hasher and nothing is
\* done to a hasher after it.
HasherLifecycle ==
  /\ [](pc \in {"open", "finalized"})
  /\ []((pc = "finalized") <=> (digest # <<>>))
  /\ [][/\ pc = "open"
        /\ pc' \in {"open", "finalized"}
        /\ pc' = "finalized" => pre' = hasher /\ fed' = fed /\ updates' = updates]_vars

\* A hasher finalized after two update calls.
HasherLifecycleWitness ==
  /\ pc = "finalized"
  /\ updates = 2
  /\ Len(digest) = BlockSize(alg) \div 2
  /\ pre.total_len # New(alg).total_len

\* C15: in every interleaving of update and finalize calls on several
\* hashers, each hasher returns the digest it returns when it is given its
\* bytes alone, so the digest depends only on the bytes that instance
\* absorbed; and two hashers of one algorithm given the same bytes return
\* the same digest.
InstanceIndependence ==
  /\ \A i \in Instances :
       insts[i].pc = "finalized" =>
         insts[i].digest
           = FinalizeOf(insts[i].alg, UpdateOf(insts[i].alg, New(insts[i].alg), insts[i].fed))
  /\ \A i \in Instances : \A j \in Instances :
       /\ insts[i].pc = "finalized" /\ insts[j].pc = "finalized"
       /\ insts[i].alg = insts[j].alg /\ insts[i].fed = insts[j].fed
       => insts[i].digest = insts[j].digest

\* Two hashers of one algorithm, both finalized, each after an update call
\* of its own: the first absorbed one byte short of a block, the second a
\* single byte.
InstanceIndependenceWitness ==
  /\ insts[1].pc = "finalized" /\ insts[2].pc = "finalized"
  /\ insts[1].alg = insts[2].alg
  /\ insts[1].updates = 1 /\ insts[2].updates = 1
  /\ Len(insts[1].fed) = BlockSize(insts[1].alg) - 1
  /\ Len(insts[2].fed) = 1

\* Byte j (from 0, most significant first) of a word.
ByteOfWord(x, j) ==
  IF j % 2 = 0 THEN x[(j \div 2) + 1] \div 256 ELSE x[(j \div 2) + 1] % 256

\* The bytes of a chaining word: 4 for Sha256, 8 for Sha512.
WordSize(a) == IF a = "sha256" THEN 4 ELSE 8

\* C18: finalize returns exactly 32 bytes (Sha256) or 64 bytes (Sha512);
\* bytes [i*w, (i+1)*w) of them are the big-endian encoding of the final
\* chaining word h[i], w = 4 or 8, for i = 0..7 in order.
DigestSerialization ==
  pc = "finalized" =>
    /\ Len(digest) = 8 * WordSize(alg)
    /\ Len(digest) = (IF alg = "sha256" THEN 32 ELSE 64)
    /\ \A i \in 0..7 : \A j \in 0..(WordSize(alg) - 1) :
         /\ digest[i * WordSize(alg) + j + 1] \in 0..255
         /\ digest[i * WordSize(alg) + j + 1] = ByteOfWord(hasher.state[i + 1], j)

\* A Sha512 digest of a message of more than a block, whose first word does
\* not read the same in both byte orders.
DigestSerializationWitness ==
  /\ pc = "finalized"
  /\ alg = "sha512"
  /\ Len(fed) > BlockSize(alg)
  /\ Len(digest) = 64
  /\ digest[1] # digest[8]

\* The initial hash value of FIPS 180-4 (5.3.3, 5.3.5): the first 32 / 64 bits
\* of the fractional parts of the square roots of the first eight primes.
StandardInitialHashValue(a) ==
  IF a = "sha256"
  THEN <<
    <<\h6a09, \he667>>, <<\hbb67, \hae85>>, <<\h3c6e, \hf372>>, <<\ha54f, \hf53a>>,
    <<\h510e, \h527f>>, <<\h9b05, \h688c>>, <<\h1f83, \hd9ab>>, <<\h5be0, \hcd19>>>>
  ELSE <<
    <<\h6a09, \he667, \hf3bc, \hc908>>, <<\hbb67, \hae85, \h84ca, \ha73b>>,
    <<\h3c6e, \hf372, \hfe94, \hf82b>>, <<\ha54f, \hf53a, \h5f1d, \h36f1>>,
    <<\h510e, \h527f, \hade6, \h82d1>>, <<\h9b05, \h688c, \h2b3e, \h6c1f>>,
    <<\h1f83, \hd9ab, \hfb41, \hbd6b>>, <<\h5be0, \hcd19, \h137e, \h2179>>>>

\* C19: new() returns a hasher whose chaining state is the standard initial
\* hash value of its algorithm (0x6a09e667.. for SHA-256,
\* 0x6a09e667f3bcc908.. for SHA-512), whose residual buffer is empty
\* (buffer_len = 0) and whose total length is 0.
NewHasherState ==
  pc = "open" /\ updates = 0 =>
    /\ hasher.state = StandardInitialHashValue(alg)
    /\ hasher.state[1][1] = \h6a09 /\ hasher.state[1][2] = \he667
    /\ alg = "sha512" => hasher.state[1][3] = \hf3bc /\ hasher.state[1][4] = \hc908
    /\ hasher.buffer_len = 0
    /\ Len(hasher.buffer) = BlockSize(alg)
    /\ to_be_bytes(hasher.total_len) = Zeros(LengthFieldSize(alg))

\* A Sha512 as new() returned it, before any call on it.
NewHasherStateWitness ==
  /\ pc = "open"
  /\ updates = 0
  /\ alg = "sha512"
  /\ fed = <<>>
  /\ hasher = pre

----------------------------------------------------------------------------
(* The transform driven directly, and the hasher as a refinement of it     *)

\* test_custom_values of the two pure-Rust programs: the initial state and
\* the block they write out, and the state the one transform call leaves.
test_custom_values(a) ==
  IF a = "sha256"
  THEN LET initial_state ==
             <<<<\h6a09, \he667>>, <<\hbb67, \hae85>>, <<\h3c6e, \hf372>>,
               <<\ha54f, \hf53a>>, <<\h510e, \h527f>>, <<\h9b05, \h688c>>,
               <<\h1f83, \hd9ab>>, <<\h5be0, \hcd19>>>>
           data == <<\h61, \h62, \h63, \h80>> \o Zeros(59) \o <<\h18>>
       IN  [initial_state |-> initial_state, data |-> data,
            state |-> sha256_transform_generic(initial_state, data)]
  ELSE LET initial_state ==
             <<<<\h6a09, \he667, \hf3bc, \hc908>>, <<\hbb67, \hae85, \h84ca, \ha73b>>,
               <<\h3c6e, \hf372, \hfe94, \hf82b>>, <<\ha54f, \hf53a, \h5f1d, \h36f1>>,
               <<\h510e, \h527f, \hade6, \h82d1>>, <<\h9b05, \h688c, \h2b3e, \h6c1f>>,
               <<\h1f83, \hd9ab, \hfb41, \hbd6b>>, <<\h5be0, \hcd19, \h137e, \h2179>>>>
           data == <<\h61, \h62, \h63, \h80>> \o Zeros(123) \o <<\h18>>
       IN  [initial_state |-> initial_state, data |-> data,
            state |-> sha512_transform_generic(initial_state, data)]

\* The message S padded by hand into one block: S, 0x80, zeros, and the bit
\* length of S in the last 8 (SHA-256) or 16 (SHA-512) bytes.
PrePaddedBlock(a, S) ==
  S \o <<128>> \o Zeros(BlockSize(a) - LengthFieldSize(a) - 1 - Len(S))
    \o BigEndian(8 * Len(S), LengthFieldSize(a))

\* C21: for every message S of at most 55 (SHA-256) or 111 (SHA-512) bytes,
\* one call of the transform on the standard initial state and the block
\* S, 0x80, zeros, bit length leaves a state whose big-endian serialization
\* is the digest of new(); update(S); finalize(); and the block the benchmark
\* programs write out is that block for S = "abc".
LowLevelEntryPoint ==
  pc = "finalized" /\ Len(fed) <= BlockSize(alg) - LengthFieldSize(alg) - 1 =>
    /\ Len(PrePaddedBlock(alg, fed)) = BlockSize(alg)
    /\ digest = SerializeState(GenericBlocks(alg, StandardInitialHashValue(alg),
                                             <<PrePaddedBlock(alg, fed)>>))
    /\ fed = <<97, 98, 99>> =>
         /\ test_custom_values(alg).data = PrePaddedBlock(alg, fed)
         /\ AbcBlock(alg) = PrePaddedBlock(alg, fed)
         /\ test_custom_values(alg).initial_state = StandardInitialHashValue(alg)
         /\ digest = SerializeState(test_custom_values(alg).state)

\* The longest message that fits one padded block, fed in two calls.
LowLevelEntryPointWitness ==
  /\ pc = "finalized"
  /\ updates >= 2
  /\ Len(fed) = BlockSize(alg) - LengthFieldSize(alg) - 1
  /\ FinalizeTransforms = 1
  /\ Len(digest) = 8 * WordSize(alg)

\* Block k (from 1) of the stream the caller has fed so far.
StreamBlockOfFed(k) ==
  SubSeq(fed, (k - 1) * BlockSize(alg) + 1, k * BlockSize(alg))

\* C22: over any sequence of update calls the blocks passed to the transform
\* are exactly the consecutive block-size slices of the concatenated input,
\* in stream order (a topped-up buffer is compressed before any block taken
\* directly from the new chunk), each slice once; a call only adds blocks
\* after those already compressed; and the first buffer_len bytes of the
\* buffer are the tail of the stream not yet compressed.
StreamToBlockRefinement ==
  /\ [](pc = "open" =>
          /\ Len(hasher.blocks) = Len(fed) \div BlockSize(alg)
          /\ \A k \in 1..Len(hasher.blocks) : hasher.blocks[k] = StreamBlockOfFed(k)
          /\ SubSeq(hasher.buffer, 1, hasher.buffer_len)
               = SubSeq(fed, Len(hasher.blocks) * BlockSize(alg) + 1, Len(fed)))
  /\ [][pc' = "open" =>
          /\ Len(hasher'.blocks) >= Len(hasher.blocks)
          /\ SubSeq(hasher'.blocks, 1, Len(hasher.blocks)) = hasher.blocks
          /\ SubSeq(fed', 1, Len(fed)) = fed]_vars

\* One byte, then a chunk of two blocks: the second call tops the buffer up
\* and compresses it, then compresses one block straight from the chunk and
\* keeps the last byte; the buffer still shows the topped-up block behind it.
StreamToBlockRefinementWitness ==
  /\ pc = "open"
  /\ updates = 2
  /\ Len(fed) = 2 * BlockSize(alg) + 1
  /\ Len(hasher.blocks) = 2
  /\ hasher.buffer_len = 1
  /\ hasher.buffer[2] = fed[2]
  /\ fed[2] # fed[BlockSize(alg) + 2]

\* C23: after new() and after every update call, buffer_len is total_len
\* modulo the block size and the number of transform calls the hasher has
\* made is total_len divided by the block size, rounded down: total_len is
\* that number of blocks plus the buffer_len < block size bytes of the buffer.
BufferLenFromTotalLen ==
  pc = "open" =>
    /\ hasher.buffer_len \in 0..(BlockSize(alg) - 1)
    /\ hasher.total_len
         = NatToWord(Len(hasher.blocks) * BlockSize(alg) + hasher.buffer_len,
                     TotalLenLimbs(alg))
    /\ hasher.total_len[TotalLenLimbs(alg)] % BlockSize(alg) = hasher.buffer_len
    /\ hasher.total_len[TotalLenLimbs(alg)] \div BlockSize(alg) = Len(hasher.blocks)

\* Three update calls that left two compressed blocks and a partly filled
\* buffer.
BufferLenFromTotalLenWitness ==
  /\ pc = "open"
  /\ updates = 3
  /\ Len(hasher.blocks) = 2
  /\ hasher.buffer_len > 0
  /\ hasher.total_len # New(alg).total_len

\* C27: an update call with buffer_len + len(data) < block size, len(data) = 0
\* included, makes no transform call, leaves the chaining state and the bytes
\* already in the buffer as they were, and only writes data behind them and
\* adds len(data) to buffer_len and to total_len; an empty update changes
\* nothing at all.
ShortUpdateFrame ==
  [][/\ pc' = "open"
     /\ updates' = updates + 1
     /\ hasher.buffer_len + (Len(fed') - Len(fed)) < BlockSize(alg)
     => /\ hasher'.state = hasher.state
        /\ hasher'.blocks = hasher.blocks
        /\ hasher'.buffer
             = SubSeq(hasher.buffer, 1, hasher.buffer_len)
               \o SubSeq(fed', Len(fed) + 1, Len(fed'))
               \o SubSeq(hasher.buffer, hasher.buffer_len + (Len(fed') - Len(fed)) + 1,
                         BlockSize(alg))
        /\ hasher'.buffer_len = hasher.buffer_len + (Len(fed') - Len(fed))
        /\ hasher'.total_len
             = wrapping_add(hasher.total_len,
                            NatToWord(Len(fed') - Len(fed), TotalLenLimbs(alg)))
        /\ fed' = fed => hasher' = hasher]_vars

\* Two short update calls, the second onto a buffer that already held bytes,
\* and then an empty one.
ShortUpdateFrameWitness ==
  /\ pc = "open"
  /\ updates = 3
  /\ Len(fed) = 4
  /\ hasher.buffer_len = 4
  /\ hasher.blocks = <<>>
  /\ SubSeq(hasher.buffer, 1, 4) = fed

\* C28: in every hasher state that any sequence of update calls reaches,
\* every index and range update (whatever the chunk) and finalize use on the
\* buffer, the data and the result is in range, the write of 0x80 at
\* buffer[buffer_len] and the copy into buffer[buffer_len .. buffer_len +
\* to_copy] among them: no call ends with an out-of-bounds panic.
BoundsSafety ==
  /\ pc # "panicked"
  /\ pc = "open" =>
       /\ \A n \in ChunkSizes(alg) : UpdateInRange(alg, hasher, n)
       /\ FinalizeInRange(alg, hasher)
       /\ [size |-> BlockSize(alg), lo |-> hasher.buffer_len, hi |-> hasher.buffer_len + 1]
            \in FinalizeAccesses(BlockSize(alg), LengthFieldSize(alg),
                                 BlockSize(alg) \div 16, hasher.buffer_len)
  /\ pc = "finalized" => pre.buffer_len < BlockSize(alg)

\* finalize on a buffer one byte short of full, reached by a call that
\* topped the buffer up, flushed it and refilled it: 0x80 goes to the last
\* index of the buffer.
BoundsSafetyWitness ==
  /\ pc = "finalized"
  /\ updates = 2
  /\ Len(pre.blocks) = 1
  /\ pre.buffer_len = BlockSize(alg) - 1
  /\ hasher.blocks[2][BlockSize(alg)] = 128

\* C29: every update call on a finite chunk and every finalize call
\* returns; an iteration of the loop over full blocks advances pos by one
\* block, and the loop ends when fewer than block size bytes remain past
\* pos; an iteration of a zero-fill loop advances buffer_len by one, up to
\* the loop's bound (the block size, then the start of the length field).
Termination ==
  /\ (loop_pc \in InCall) ~> (loop_pc \in {"ready", "returned"})
  /\ [][loop_pc = "update_loop" =>
          \/ /\ loop_pc' = "update_loop"
             /\ loop_pos' = loop_pos + BlockSize(loop_alg)
             /\ loop_pos' <= loop_len
          \/ /\ loop_pc' = "ready"
             /\ loop_len - loop_pos \in 0..(BlockSize(loop_alg) - 1)]_vars
  /\ [][loop_pc = "first_fill" =>
          \/ /\ loop_pc' = "first_fill"
             /\ loop_buffer_len' = loop_buffer_len + 1
             /\ loop_buffer_len' <= BlockSize(loop_alg)
          \/ /\ loop_pc' = "second_fill"
             /\ loop_buffer_len = BlockSize(loop_alg)]_vars
  /\ [][loop_pc = "second_fill" =>
          \/ /\ loop_pc' = "second_fill"
             /\ loop_buffer_len' = loop_buffer_len + 1
             /\ loop_buffer_len' <= BlockSize(loop_alg) - LengthFieldSize(loop_alg)
          \/ /\ loop_pc' = "returned"
             /\ loop_buffer_len = BlockSize(loop_alg) - LengthFieldSize(loop_alg)]_vars

\* An update call that left the buffer filled up to the length field, then
\* one of three blocks: the top-up, two iterations of the loop over full
\* blocks, and a remainder that again reaches the length field; then
\* finalize, whose first zero-fill loop runs to the end of the block and
\* whose second runs from 0: all of them have returned.
TerminationWitness ==
  /\ loop_pc = "returned"
  /\ loop_calls = 2
  /\ loop_len = 3 * BlockSize(loop_alg)
  /\ loop_pos = 2 * BlockSize(loop_alg) + LengthFieldSize(loop_alg)
  /\ loop_buffer_len = BlockSize(loop_alg) - LengthFieldSize(loop_alg)

----------------------------------------------------------------------------
(* Properties of the hardware transforms and of the AArch64 programs       *)

\* C5: for every chaining state and every 64-byte block, compress256 applied
\* to that single block (the SHA256H / SHA256H2 / SHA256SU0 / SHA256SU1
\* sequence) leaves the same 8 words in state as sha256_transform_generic
\* applied to the same state and block.
Sha256HardwareEquivalence ==
  ckind = "sha256" /\ Len(cblocks) = 1 /\ cgeneric # <<>> /\ chardware # <<>> =>
    /\ chardware = cgeneric
    /\ chardware = sha256_transform_generic(cstate, cblocks[1])

\* Both transforms have run on a message block and a state that is not the
\* initial hash value.
Sha256HardwareEquivalenceWitness ==
  /\ ckind = "sha256"
  /\ Len(cblocks) = 1
  /\ cstate # Sha256State_new
  /\ cblocks[1] # AbcBlock("sha256")
  /\ Len(cgeneric) = 8
  /\ Len(chardware) = 8

\* C6: for every chaining state and every 128-byte block, sha512_compress_hw
\* applied to that single block (the SHA512H / SHA512H2 / SHA512SU0 /
\* SHA512SU1 sequence with the rotating ab / cd / ef / gh roles) leaves the
\* same 8 words in state as sha512_transform_generic applied to the same
\* state and block.
Sha512HardwareEquivalence ==
  ckind = "sha512" /\ Len(cblocks) = 1 /\ cgeneric # <<>> /\ chardware # <<>> =>
    /\ chardware = cgeneric
    /\ chardware = sha512_transform_generic(cstate, cblocks[1])

\* Both transforms have run on a message block and a state that is not the
\* initial hash value.
Sha512HardwareEquivalenceWitness ==
  /\ ckind = "sha512"
  /\ Len(cblocks) = 1
  /\ cstate # Sha512State_new
  /\ cblocks[1] # AbcBlock("sha512")
  /\ Len(cgeneric) = 8
  /\ Len(chardware) = 8

\* C7: whenever compress256 is requested and feature detection reports the
\* required extension absent, the program reports an unsupported-hardware
\* condition and executes none of the SHA-256 hardware instructions.
Sha256HardwareGating ==
  prog = "sha256_aarch64" /\ ~detected /\ hw_calls > 0 =>
    reported /\ hw_issued = 0

\* C8: in the SHA-512 AArch64 program the sha3 feature query is made exactly
\* once, before the first call of sha512_compress_hw; if it reports the
\* extension absent the program reports the error and terminates without
\* ever calling sha512_compress_hw; the query is never repeated per call.
Sha512FeatureQueriedOnce ==
  prog = "sha512_aarch64" =>
    /\ queries = (IF mpc = "start" THEN 0 ELSE 1)
    /\ hw_calls > 0 => queries = 1 /\ detected
    /\ ~detected /\ mpc # "start" => reported /\ mpc = "exit" /\ hw_calls = 0
    /\ detected => ~reported

\* The measuring loops reached after the first call and the warm-up calls,
\* with the one query made at the start.
Sha512FeatureQueriedOnceWitness ==
  /\ prog = "sha512_aarch64"
  /\ mpc = "measure"
  /\ hw_calls > MaxIterations + 1
  /\ queries = 1

----------------------------------------------------------------------------
(* Properties of the transforms as state transitions                       *)

\* Eight words of the algorithm's width, every limb a 16-bit value.
WellFormedState(a, s) ==
  /\ Len(s) = 8
  /\ \A i \in 1..8 :
       /\ Len(s[i]) = (IF a = "sha256" THEN 2 ELSE 4)
       /\ \A k \in 1..Len(s[i]) : s[i][k] \in 0..65535

RECURSIVE HardwareEachBlock(_, _, _)
HardwareEachBlock(a, state, blocks) ==
  IF blocks = <<>> THEN state
  ELSE HardwareEachBlock(a, HardwareBlocks(a, state, <<Head(blocks)>>), Tail(blocks))

\* C17: compress256 and sha512_compress_hw on a sequence of blocks leave the
\* state that the single-block call leaves when it is made on each block in
\* sequence order with the state carried over; on an empty sequence they
\* leave the state unchanged.
BatchedCompression ==
  chardware # <<>> =>
    /\ chardware = HardwareEachBlock(ckind, cstate, cblocks)
    /\ cblocks = <<>> => chardware = cstate

\* The hardware entry point has run on two different blocks.
BatchedCompressionWitness ==
  /\ chardware # <<>>
  /\ Len(cblocks) >= 2
  /\ cblocks[1] # cblocks[2]
  /\ chardware # cstate

----------------------------------------------------------------------------
(* The round constants                                                     *)

\* The constants of FIPS 180-4 (4.2.2): the first 32 bits of the fractional
\* parts of the cube roots of the first 64 primes.
StandardRoundConstants256 ==
  <<
    <<\h428a, \h2f98>>, <<\h7137, \h4491>>, <<\hb5c0, \hfbcf>>, <<\he9b5, \hdba5>>,
    <<\h3956, \hc25b>>, <<\h59f1, \h11f1>>, <<\h923f, \h82a4>>, <<\hab1c, \h5ed5>>,
    <<\hd807, \haa98>>, <<\h1283, \h5b01>>, <<\h2431, \h85be>>, <<\h550c, \h7dc3>>,
    <<\h72be, \h5d74>>, <<\h80de, \hb1fe>>, <<\h9bdc, \h06a7>>, <<\hc19b, \hf174>>,
    <<\he49b, \h69c1>>, <<\hefbe, \h4786>>, <<\h0fc1, \h9dc6>>, <<\h240c, \ha1cc>>,
    <<\h2de9, \h2c6f>>, <<\h4a74, \h84aa>>, <<\h5cb0, \ha9dc>>, <<\h76f9, \h88da>>,
    <<\h983e, \h5152>>, <<\ha831, \hc66d>>, <<\hb003, \h27c8>>, <<\hbf59, \h7fc7>>,
    <<\hc6e0, \h0bf3>>, <<\hd5a7, \h9147>>, <<\h06ca, \h6351>>, <<\h1429, \h2967>>,
    <<\h27b7, \h0a85>>, <<\h2e1b, \h2138>>, <<\h4d2c, \h6dfc>>, <<\h5338, \h0d13>>,
    <<\h650a, \h7354>>, <<\h766a, \h0abb>>, <<\h81c2, \hc92e>>, <<\h9272, \h2c85>>,
    <<\ha2bf, \he8a1>>, <<\ha81a, \h664b>>, <<\hc24b, \h8b70>>, <<\hc76c, \h51a3>>,
    <<\hd192, \he819>>, <<\hd699, \h0624>>, <<\hf40e, \h3585>>, <<\h106a, \ha070>>,
    <<\h19a4, \hc116>>, <<\h1e37, \h6c08>>, <<\h2748, \h774c>>, <<\h34b0, \hbcb5>>,
    <<\h391c, \h0cb3>>, <<\h4ed8, \haa4a>>, <<\h5b9c, \hca4f>>, <<\h682e, \h6ff3>>,
    <<\h748f, \h82ee>>, <<\h78a5, \h636f>>, <<\h84c8, \h7814>>, <<\h8cc7, \h0208>>,
    <<\h90be, \hfffa>>, <<\ha450, \h6ceb>>, <<\hbef9, \ha3f7>>, <<\hc671, \h78f2>>>>

\* The constants of FIPS 180-4 (4.2.3): the first 64 bits of the fractional
\* parts of the cube roots of the first 80 primes.
StandardRoundConstants512 ==
  <<
    <<\h428a, \h2f98, \hd728, \hae22>>, <<\h7137, \h4491, \h23ef, \h65cd>>,
    <<\hb5c0, \hfbcf, \hec4d, \h3b2f>>, <<\he9b5, \hdba5, \h8189, \hdbbc>>,
    <<\h3956, \hc25b, \hf348, \hb538>>, <<\h59f1, \h11f1, \hb605, \hd019>>,
    <<\h923f, \h82a4, \haf19, \h4f9b>>, <<\hab1c, \h5ed5, \hda6d, \h8118>>,
    <<\hd807, \haa98, \ha303, \h0242>>, <<\h1283, \h5b01, \h4570, \h6fbe>>,
    <<\h2431, \h85be, \h4ee4, \hb28c>>, <<\h550c, \h7dc3, \hd5ff, \hb4e2>>,
    <<\h72be, \h5d74, \hf27b, \h896f>>, <<\h80de, \hb1fe, \h3b16, \h96b1>>,
    <<\h9bdc, \h06a7, \h25c7, \h1235>>, <<\hc19b, \hf174, \hcf69, \h2694>>,
    <<\he49b, \h69c1, \h9ef1, \h4ad2>>, <<\hefbe, \h4786, \h384f, \h25e3>>,
    <<\h0fc1, \h9dc6, \h8b8c, \hd5b5>>, <<\h240c, \ha1cc, \h77ac, \h9c65>>,
    <<\h2de9, \h2c6f, \h592b, \h0275>>, <<\h4a74, \h84aa, \h6ea6, \he483>>,
    <<\h5cb0, \ha9dc, \hbd41, \hfbd4>>, <<\h76f9, \h88da, \h8311, \h53b5>>,
    <<\h983e, \h5152, \hee66, \hdfab>>, <<\ha831, \hc66d, \h2db4, \h3210>>,
    <<\hb003, \h27c8, \h98fb, \h213f>>, <<\hbf59, \h7fc7, \hbeef, \h0ee4>>,
    <<\hc6e0, \h0bf3, \h3da8, \h8fc2>>, <<\hd5a7, \h9147, \h930a, \ha725>>,
    <<\h06ca, \h6351, \he003, \h826f>>, <<\h1429, \h2967, \h0a0e, \h6e70>>,
    <<\h27b7, \h0a85, \h46d2, \h2ffc>>, <<\h2e1b, \h2138, \h5c26, \hc926>>,
    <<\h4d2c, \h6dfc, \h5ac4, \h2aed>>, <<\h5338, \h0d13, \h9d95, \hb3df>>,
    <<\h650a, \h7354, \h8baf, \h63de>>, <<\h766a, \h0abb, \h3c77, \hb2a8>>,
    <<\h81c2, \hc92e, \h47ed, \haee6>>, <<\h9272, \h2c85, \h1482, \h353b>>,
    <<\ha2bf, \he8a1, \h4cf1, \h0364>>, <<\ha81a, \h664b, \hbc42, \h3001>>,
    <<\hc24b, \h8b70, \hd0f8, \h9791>>, <<\hc76c, \h51a3, \h0654, \hbe30>>,
    <<\hd192, \he819, \hd6ef, \h5218>>, <<\hd699, \h0624, \h5565, \ha910>>,
    <<\hf40e, \h3585, \h5771, \h202a>>, <<\h106a, \ha070, \h32bb, \hd1b8>>,
    <<\h19a4, \hc116, \hb8d2, \hd0c8>>, <<\h1e37, \h6c08, \h5141, \hab53>>,
    <<\h2748, \h774c, \hdf8e, \heb99>>, <<\h34b0, \hbcb5, \he19b, \h48a8>>,
    <<\h391c, \h0cb3, \hc5c9, \h5a63>>, <<\h4ed8, \haa4a, \he341, \h8acb>>,
    <<\h5b9c, \hca4f, \h7763, \he373>>, <<\h682e, \h6ff3, \hd6b2, \hb8a3>>,
    <<\h748f, \h82ee, \h5def, \hb2fc>>, <<\h78a5, \h636f, \h4317, \h2f60>>,
    <<\h84c8, \h7814, \ha1f0, \hab72>>, <<\h8cc7, \h0208, \h1a64, \h39ec>>,
    <<\h90be, \hfffa, \h2363, \h1e28>>, <<\ha450, \h6ceb, \hde82, \hbde9>>,
    <<\hbef9, \ha3f7, \hb2c6, \h7915>>, <<\hc671, \h78f2, \he372, \h532b>>,
    <<\hca27, \h3ece, \hea26, \h619c>>, <<\hd186, \hb8c7, \h21c0, \hc207>>,
    <<\heada, \h7dd6, \hcde0, \heb1e>>, <<\hf57d, \h4f7f, \hee6e, \hd178>>,
    <<\h06f0, \h67aa, \h7217, \h6fba>>, <<\h0a63, \h7dc5, \ha2c8, \h98a6>>,
    <<\h113f, \h9804, \hbef9, \h0dae>>, <<\h1b71, \h0b35, \h131c, \h471b>>,
    <<\h28db, \h77f5, \h2304, \h7d84>>, <<\h32ca, \hab7b, \h40c7, \h2493>>,
    <<\h3c9e, \hbe0a, \h15c9, \hbebc>>, <<\h431d, \h67c4, \h9c10, \h0d4c>>,
    <<\h4cc5, \hd4be, \hcb3e, \h42b6>>, <<\h597f, \h299c, \hfc65, \h7e2a>>,
    <<\h5fcb, \h6fab, \h3ad6, \hfaec>>, <<\h6c44, \h198c, \h4a47, \h5817>>>>

\* The table the generic transform of an algorithm reads (K of sha256_rust,
\* K of sha512_rust) and the table its hardware transform reads (K32, K64).
GenericTable(a) == IF a = "sha256" THEN K_sha256 ELSE K_sha512
HardwareTable(a) == IF a = "sha256" THEN K32 ELSE K64

\* The constants of the standard for an algorithm.
StandardRoundConstants(a) ==
  IF a = "sha256" THEN StandardRoundConstants256 ELSE StandardRoundConstants512

\* C20, with the size of the SHA-256 table as the source has it: the round
\* constants are fixed arrays of 64 entries for SHA-256 and of 80 entries for
\* SHA-512, the constants of the standard, the same for the generic and the
\* hardware transform; they are the same in every state, before and after
\* either transform has run.
RoundConstantTables ==
  /\ Len(GenericTable(ckind)) = (IF ckind = "sha256" THEN 64 ELSE 80)
  /\ Len(HardwareTable(ckind)) = (IF ckind = "sha256" THEN 64 ELSE 80)
  /\ GenericTable(ckind) = StandardRoundConstants(ckind)
  /\ HardwareTable(ckind) = StandardRoundConstants(ckind)

\* Both transforms have read the SHA-256 table: they have run on the block
\* and the state of the benchmark programs.
RoundConstantTablesWitness ==
  /\ ckind = "sha256"
  /\ cstate = Sha256State_new
  /\ cblocks = <<AbcBlock("sha256")>>
  /\ cgeneric # <<>>
  /\ chardware # <<>>

\* C20 as stated: 32 entries for SHA-256 and 80 entries for SHA-512.
RoundConstantTablesAsSpecified ==
  /\ Len(GenericTable(ckind)) = (IF ckind = "sha256" THEN 32 ELSE 80)
  /\ Len(HardwareTable(ckind)) = (IF ckind = "sha256" THEN 32 ELSE 80)

----------------------------------------------------------------------------
(* The steps inside the generic transform                                  *)

\* The rounds of a transform, which is also the length of its schedule.
Rounds(a) == IF a = "sha256" THEN 64 ELSE 80

\* The 16 bits of a limb, least significant first.
BitsOfLimb(v) ==
  <<v % 2, (v \div 2) % 2, (v \div 4) % 2, (v \div 8) % 2,
    (v \div 16) % 2, (v \div 32) % 2, (v \div 64) % 2, (v \div 128) % 2,
    (v \div 256) % 2, (v \div 512) % 2, (v \div 1024) % 2, (v \div 2048) % 2,
    (v \div 4096) % 2, (v \div 8192) % 2, (v \div 16384) % 2, (v \div 32768) % 2>>

\* The bits of a word, least significant first: bit j is at index j + 1.
RECURSIVE Bits(_)
Bits(x) ==
  IF x = <<>> THEN <<>>
  ELSE BitsOfLimb(x[Len(x)]) \o Bits(SubSeq(x, 1, Len(x) - 1))

\* The limb of the 16 bits of b above offset o.
LimbOfBits(b, o) ==
  b[o + 1] + 2 * (b[o + 2] + 2 * (b[o + 3] + 2 * (b[o + 4] + 2 * (b[o + 5]
  + 2 * (b[o + 6] + 2 * (b[o + 7] + 2 * (b[o + 8] + 2 * (b[o + 9]
  + 2 * (b[o + 10] + 2 * (b[o + 11] + 2 * (b[o + 12] + 2 * (b[o + 13]
  + 2 * (b[o + 14] + 2 * (b[o + 15] + 2 * b[o + 16]))))))))))))))

\* The word of a sequence of bits, the inverse of Bits.
WordOfBits(b) ==
  SubSeq([k \in 1..(Len(b) \div 16) |-> LimbOfBits(b, Len(b) - 16 * k)],
         1, Len(b) \div 16)

\* Bit j of the bits b rotated right by n, and of b shifted right by n.
RotrBit(b, n, j) == b[((j + n) % Len(b)) + 1]
ShrBit(b, n, j) == IF j + n < Len(b) THEN b[j + n + 1] ELSE 0

\* (b rotr r1) xor (b rotr r2) xor (b shr sh) on the bits b of a word.
SmallSigmaBits(b, r1, r2, sh) ==
  WordOfBits(SubSeq([j \in 1..Len(b) |->
                       (RotrBit(b, r1, j - 1) + RotrBit(b, r2, j - 1)
                        + ShrBit(b, sh, j - 1)) % 2], 1, Len(b)))

\* (x rotr r1) xor (x rotr r2) xor (x shr sh), bit by bit.
SmallSigma(x, r1, r2, sh) == SmallSigmaBits(Bits(x), r1, r2, sh)

\* The sum of limb k of every word of ws.
RECURSIVE LimbTotal(_, _)
LimbTotal(ws, k) == IF ws = <<>> THEN 0 ELSE Head(ws)[k] + LimbTotal(Tail(ws), k)

\* Limbs 1..k of the sum of the words of ws modulo 2^(16 * limbs), given the
\* carry into limb k.
RECURSIVE SumLimbs(_, _, _)
SumLimbs(ws, k, carry) ==
  IF k = 0 THEN <<>>
  ELSE SumLimbs(ws, k - 1, (LimbTotal(ws, k) + carry) \div 65536)
       \o <<(LimbTotal(ws, k) + carry) % 65536>>

\* The sum of the words of ws modulo 2^32 (2^64).
SumMod(ws) == SumLimbs(ws, Len(ws[1]), 0)

\* Word i (from 0) of a block read as consecutive big-endian words of n bytes.
BigEndianWord(block, i, n) ==
  SubSeq([m \in 1..(n \div 2) |->
            block[n * i + 2 * m - 1] * 256 + block[n * i + 2 * m]], 1, n \div 2)

\* The block of the last call of the transform on cblocks. Every slice of
\* blocks tried is tried with each of its prefixes as well, so the last
\* calls are all the calls.
LastBlock == cblocks[Len(cblocks)]

\* The message schedule the generic transform builds from a block.
ScheduleOf(a, block) ==
  IF a = "sha256" THEN Sha256Schedule(block) ELSE Sha512Schedule(block)

\* w is the schedule of FIPS 180-4 for the block.
ScheduleAsSpecified(a, w, block) ==
  /\ Len(w) = Rounds(a)
  /\ \A i \in 0..15 : w[i + 1] = BigEndianWord(block, i, WordSize(a))
  /\ \A i \in 16..(Rounds(a) - 1) :
       w[i + 1] =
         SumMod(<<w[i - 16 + 1],
                  IF a = "sha256" THEN SmallSigma(w[i - 15 + 1], 7, 18, 3)
                                  ELSE SmallSigma(w[i - 15 + 1], 1, 8, 7),
                  w[i - 7 + 1],
                  IF a = "sha256" THEN SmallSigma(w[i - 2 + 1], 17, 19, 10)
                                  ELSE SmallSigma(w[i - 2 + 1], 19, 61, 6)>>)

\* C24: in the generic transform W[0..15] are the block's consecutive
\* big-endian words and, for i from 16 to 63 (SHA-256) or 79 (SHA-512),
\* W[i] = W[i-16] + s0(W[i-15]) + W[i-7] + s1(W[i-2]) modulo 2^32 or 2^64,
\* with s0 = rotr 7 xor rotr 18 xor shr 3, s1 = rotr 17 xor rotr 19 xor shr 10
\* for SHA-256 and s0 = rotr 1 xor rotr 8 xor shr 7, s1 = rotr 19 xor rotr 61
\* xor shr 6 for SHA-512. It is read on the last block the generic transform
\* was called on, in the states where it alone has run.
MessageScheduleExpansion ==
  cgeneric # <<>> /\ chardware = <<>> /\ cblocks # <<>> =>
    ScheduleAsSpecified(ckind, ScheduleOf(ckind, LastBlock), LastBlock)

\* The SHA-512 transform has run on two blocks of the message; the second
\* block's schedule has 80 words, none of the expanded ones zero.
MessageScheduleExpansionWitness ==
  /\ cgeneric # <<>>
  /\ chardware = <<>>
  /\ ckind = "sha512"
  /\ Len(cblocks) = 2
  /\ cblocks[2][1] # cblocks[2][2]
  /\ cgeneric # cstate

\* (b rotr r1) xor (b rotr r2) xor (b rotr r3) on the bits b of a word.
BigSigmaBits(b, r1, r2, r3) ==
  WordOfBits(SubSeq([j \in 1..Len(b) |->
                       (RotrBit(b, r1, j - 1) + RotrBit(b, r2, j - 1)
                        + RotrBit(b, r3, j - 1)) % 2], 1, Len(b)))

\* S0 and S1 of FIPS 180-4: the exclusive or of three rotations.
BigSigma(x, r1, r2, r3) == BigSigmaBits(Bits(x), r1, r2, r3)

\* Ch(e, f, g) = (e and f) xor (not e and g) on the bits of the words.
ChBits(e, f, g) ==
  WordOfBits(SubSeq([j \in 1..Len(e) |->
                       (e[j] * f[j] + (1 - e[j]) * g[j]) % 2], 1, Len(e)))

Ch(e, f, g) == ChBits(Bits(e), Bits(f), Bits(g))

\* Maj(a, b, c) = (a and b) xor (a and c) xor (b and c) on the bits of the
\* words.
MajBits(x, y, z) ==
  WordOfBits(SubSeq([j \in 1..Len(x) |->
                       (x[j] * y[j] + x[j] * z[j] + y[j] * z[j]) % 2], 1, Len(x)))

Maj(x, y, z) == MajBits(Bits(x), Bits(y), Bits(z))

\* temp1 = h + S1(e) + Ch(e, f, g) + K[i] + W[i] and temp2 = S0(a) + Maj(a, b, c)
\* of a round on the working variables v = <<a, ..., h>>.
Temp1AsSpecified(a, v, ki, wi) ==
  SumMod(<<v[8],
           IF a = "sha256" THEN BigSigma(v[5], 6, 11, 25) ELSE BigSigma(v[5], 14, 18, 41),
           Ch(v[5], v[6], v[7]), ki, wi>>)
Temp2AsSpecified(a, v) ==
  SumMod(<<IF a = "sha256" THEN BigSigma(v[1], 2, 13, 22) ELSE BigSigma(v[1], 28, 34, 39),
           Maj(v[1], v[2], v[3])>>)

\* h = g, g = f, f = e, e = d + temp1, d = c, c = b, b = a, a = temp1 + temp2,
\* every right-hand side read before the round.
RotateAsSpecified(v, temp1, temp2) ==
  <<SumMod(<<temp1, temp2>>), v[1], v[2], v[3],
    SumMod(<<v[4], temp1>>), v[5], v[6], v[7]>>

\* The rounds from s.i to Rounds(a) - 1, round i with k[i] and w[i], from the
\* working variables s.v.
RECURSIVE RoundsAsSpecified(_, _, _, _)
RoundsAsSpecified(a, s, k, w) ==
  IF s.i = Rounds(a) THEN s.v
  ELSE RoundsAsSpecified(a,
         [i |-> s.i + 1,
          v |-> RotateAsSpecified(s.v, Temp1AsSpecified(a, s.v, k[s.i + 1], w[s.i + 1]),
                                  Temp2AsSpecified(a, s.v))],
         k, w)

\* The chaining state the generic transform is given for block b of cblocks.
StateBefore(b) == GenericBlocks(ckind, cstate, SubSeq(cblocks, 1, b - 1))

\* The working variables a..h the generic transform holds after its round
\* loop on chaining state h and a block.
WorkingVariables(a, h, block) ==
  IF a = "sha256" THEN Sha256Rounds([i |-> 0, v |-> h], Sha256Schedule(block))
                  ELSE Sha512Rounds([i |-> 0, v |-> h], Sha512Schedule(block))

\* The round loop of the generic transform on chaining state h and a block
\* is the 64 or 80 rounds as specified.
RoundLoopOn(h, block) ==
  /\ Len(GenericTable(ckind)) = Rounds(ckind)
  /\ WorkingVariables(ckind, h, block)
       = RoundsAsSpecified(ckind, [i |-> 0, v |-> h],
                           StandardRoundConstants(ckind), ScheduleOf(ckind, block))

\* C25: the round loop of the generic transform runs exactly 64 (SHA-256) or
\* 80 (SHA-512) rounds from a..h = the chaining state, round i with K[i] and
\* W[i]; a round computes temp1 = h + S1(e) + Ch(e,f,g) + K[i] + W[i] and
\* temp2 = S0(a) + Maj(a,b,c), additions modulo the word size, and sets h=g,
\* g=f, f=e, e=d+temp1, d=c, c=b, b=a, a=temp1+temp2 from the values before
\* the round. It is read on the last block the generic transform was called
\* on, in the states where it alone has run.
RoundLoop ==
  cgeneric # <<>> /\ chardware = <<>> /\ cblocks # <<>> =>
    RoundLoopOn(StateBefore(Len(cblocks)), LastBlock)

\* The SHA-256 transform has run on two blocks from the state with every bit
\* set, so the round loop of the second block starts from a state the first
\* block left.
RoundLoopWitness ==
  /\ cgeneric # <<>>
  /\ chardware = <<>>
  /\ ckind = "sha256"
  /\ Len(cblocks) = 2
  /\ cstate[1][1] = 65535
  /\ StateBefore(2) # cstate

\* The registers abcd, efgh sha256_compress holds after the rounds of one
\* block, before it adds abcd_orig and efgh_orig.
Sha256HwWorkingVariables(state, block) ==
  Sha256HwStore(
    Sha256HwLoop(
      Sha256HwFirst16(Sha256HwLoad(vld1q_u32(state, 0), vld1q_u32(state, 4), block)),
      16))

\* s is h with the working variables v added word by word modulo the width.
FeedForwardAsSpecified(s, h, v) ==
  /\ Len(s) = 8
  /\ \A i \in 1..8 : s[i] = SumMod(<<h[i], v[i]>>)

\* What each transform left is the chaining state h it was given for the
\* block plus its working variables.
FeedForwardOn(h, block) ==
  /\ cgeneric # <<>> =>
       /\ WellFormedState(ckind, cgeneric)
       /\ FeedForwardAsSpecified(cgeneric, h, WorkingVariables(ckind, h, block))
  /\ chardware # <<>> /\ ckind = "sha256" =>
       /\ WellFormedState(ckind, chardware)
       /\ FeedForwardAsSpecified(chardware, h, Sha256HwWorkingVariables(h, block))

\* C26: after a call of the transform each state word i is the state word
\* i before the call plus the working variable i after the last round,
\* modulo 2^32 (SHA-256) or 2^64 (SHA-512): the addition wraps, and the call
\* yields a state whatever the words are; in the generic transforms and in
\* sha256_compress, read on the last block of the call.
FeedForward ==
  cblocks # <<>> => FeedForwardOn(StateBefore(Len(cblocks)), LastBlock)

\* Both transforms have run on one block from the state with every bit set:
\* adding any working variable but zero to such a word passes 2^32 or 2^64
\* and wraps.
FeedForwardWitness ==
  /\ cgeneric # <<>>
  /\ chardware # <<>>
  /\ Len(cblocks) = 1
  /\ \A i \in 1..8 : \A k \in 1..Len(cstate[i]) : cstate[i][k] = 65535
  /\ \A i \in 1..8 : cgeneric[i] # cstate[i]

====
